---- MODULE Spec2Model ----
(***************************************************************************)
(* Patient-to-hospital assignment engine of GYF-Care-backend.              *)
(*                                                                         *)
(* Modelling conventions                                                   *)
(*  - Python None is the empty tuple; a value that may be None is wrapped  *)
(*    in a 1-tuple (Some).  Identifiers are tuples <<"P", i>>, <<"H", j>>  *)
(*    so that they compare with None.                                      *)
(*  - All points lie on one meridian, so the haversine distance of two     *)
(*    points is proportional to the difference of their latitudes.  A      *)
(*    latitude is an integer number of grid steps; one step is 1/200 km    *)
(*    (5 m), and distances are integers in that unit.  The longitude is    *)
(*    the same for every point and is left out of the records.             *)
(*  - Text (severity) is a tuple of one-character strings.                 *)
(***************************************************************************)
EXTENDS Integers, Sequences, FiniteSets, TLC

None == <<>>
Some(v) == <<v>>

(* Bounds of the model. *)
MaxPatients == 3
MaxHospitals == 2
MaxCapacity == 2
MaxDbPatients == 1
MaxDbHospitals == 2
MaxRequests == 1

(* Latitudes (grid steps) patients and hospitals are drawn from. *)
PatientLats == {1, 3}
HospitalLats == {0, 2}

(* Program constants. *)
Sentinel == 1000000000
CostScale == 100
UnitsPerKm == 2 * CostScale

Severities ==
  { <<"G","r","a","v","e">>,
    <<"M","o","d","e","r","a","d","o">>,
    <<"L","e","v","e">> }

Capacities == {None} \cup {Some(c) : c \in 0..MaxCapacity}

Pid(i) == <<"P", i>>
Hid(j) == <<"H", j>>

VARIABLES
  patients,   \* the patient list handed to the strategies
  hospitals,  \* the hospital list handed to the strategies
  last,       \* the latest strategy call: which one, and what it returned
  prev,       \* what the call before a greedy_assign call returned (history)
  db_patients,   \* record store: the Patient rows
  db_hospitals,  \* record store: the Hospital rows
  graph,         \* BusinessAssignmentService.graph of the process-wide service
  resp,          \* the latest HTTP response, with the report it was built from
  requests,      \* number of requests served
  log,           \* the requests served so far and what each configured (history)
  diagnosis,     \* the diagnosis text handed to infer_specialty
  inferred,      \* what infer_specialty returned for it
  cache,         \* the route cache: the entries stored, by file name
  route,         \* the get_route call in progress or just finished
  routed,        \* the routes the collaborator has answered so far (history)
  threads        \* the comparison requests being served by concurrent threads

solver_vars == <<patients, hospitals, last, prev>>

service_vars == <<db_patients, db_hospitals, graph, resp, requests, log>>

text_vars == <<diagnosis, inferred>>

ors_vars == <<cache, route, routed>>

conc_vars == <<threads>>

vars == <<patients, hospitals, last, prev, db_patients, db_hospitals, graph, resp,
          requests, log, diagnosis, inferred, cache, route, routed, threads>>

(* nothing has been handed to infer_specialty *)
TextIdle == diagnosis = None /\ inferred = None

(* no ORSService yet: get_route was never called and the cache directory is empty *)
OrsIdle == cache = {} /\ route = <<>> /\ routed = <<>>

(* no comparison request is being served *)
ConcIdle == threads = <<>>

----------------------------------------------------------------------------
(* Generic helpers. *)

Abs(x) == IF x < 0 THEN -x ELSE x

Min2(a, b) == IF a <= b THEN a ELSE b

Range(f) == {f[x] : x \in DOMAIN f}

RECURSIVE SumSeq(_)
SumSeq(s) == IF s = <<>> THEN 0 ELSE Head(s) + SumSeq(Tail(s))

(* Python 3 round(): round-half-to-even of the rational num/den, den > 0, num >= 0. *)
PyRound(num, den) ==
  LET q == num \div den
      r == num % den
  IN  IF 2 * r < den THEN q
      ELSE IF 2 * r > den THEN q + 1
      ELSE IF q % 2 = 0 THEN q ELSE q + 1

(* utils/geo_utils.py: straight-line (haversine) distance, in grid steps. *)
distancia_km(lat1, lat2) == Abs(lat1 - lat2)

----------------------------------------------------------------------------
(* algorithms/greedy.py *)

UpperChars ==
  <<"A","B","C","D","E","F","G","H","I","J","K","L","M","N","O","P","Q","R","S","T","U","V","W","X","Y","Z","Í","Ó","É","Á","Ú","Ñ">>

LowerChars ==
  <<"a","b","c","d","e","f","g","h","i","j","k","l","m","n","o","p","q","r","s","t","u","v","w","x","y","z","í","ó","é","á","ú","ñ">>

(* str.lower(), one character *)
Lower(c) ==
  IF \E i \in DOMAIN UpperChars : UpperChars[i] = c
  THEN LowerChars[CHOOSE i \in DOMAIN UpperChars : UpperChars[i] = c]
  ELSE c

RECURSIVE LStrip(_)
LStrip(s) == IF s # <<>> /\ Head(s) = " " THEN LStrip(Tail(s)) ELSE s

RECURSIVE RStrip(_)
RStrip(s) ==
  IF s # <<>> /\ s[Len(s)] = " " THEN RStrip(SubSeq(s, 1, Len(s) - 1)) ELSE s

LowerText(s) == [i \in DOMAIN s |-> Lower(s[i])]

StripLower(s) == LowerText(RStrip(LStrip(s)))

StartsWith(s, c) == s # <<>> /\ s[1] = c

Contains(s, w) ==
  \E i \in 1..(Len(s) - Len(w) + 1) : SubSeq(s, i, i + Len(w) - 1) = w

severity_rank(sev) ==
  IF sev = <<>> THEN 2
  ELSE LET s == StripLower(sev)
       IN  IF StartsWith(s, "g")
              \/ Contains(s, <<"c","r","í","t">>)
              \/ Contains(s, <<"c","r","i","t">>)
           THEN 0
           ELSE IF StartsWith(s, "m") THEN 1
           ELSE 2

greedy_capacity_as_given(h) ==
  IF h.capacity = None THEN Sentinel ELSE h.capacity[1]

(* capacity copy of one hospital: absent or <= 0 means "very large" *)
greedy_capacity(h) ==
  IF h.capacity = None \/ h.capacity[1] <= 0 THEN Sentinel ELSE h.capacity[1]

(* the capacities dict, filled in list order (a later record of the same id wins) *)
RECURSIVE greedy_capacities(_, _)
greedy_capacities(hs, n) ==
  IF n = 0 THEN <<>>
  ELSE LET filled == greedy_capacities(hs, n - 1)
       IN  [x \in DOMAIN filled \cup {hs[n].id} |->
              IF x = hs[n].id THEN greedy_capacity(hs[n]) ELSE filled[x]]

(* sorted(patients, key=severity rank): stable insertion of p into a sorted list *)
RECURSIVE sorted_insert(_, _)
sorted_insert(sorted, p) ==
  IF sorted = <<>> THEN <<p>>
  ELSE IF severity_rank(sorted[Len(sorted)].severity) <= severity_rank(p.severity)
       THEN Append(sorted, p)
       ELSE Append(sorted_insert(SubSeq(sorted, 1, Len(sorted) - 1), p),
                   sorted[Len(sorted)])

patients_unsorted(ps, n) == SubSeq(ps, 1, n)

RECURSIVE patients_sorted(_, _)
patients_sorted(ps, n) ==
  IF n = 0 THEN <<>> ELSE sorted_insert(patients_sorted(ps, n - 1), ps[n])

(* the inner loop: nearest hospital with capacity left; the first minimum wins *)
greedy_better(d, best) == best.d = None \/ d < best.d[1]

RECURSIVE greedy_scan(_, _, _, _, _)
greedy_scan(p, hs, capacities, j, best) ==
  IF j > Len(hs) THEN best
  ELSE IF capacities[hs[j].id] <= 0 THEN greedy_scan(p, hs, capacities, j + 1, best)
  ELSE LET d == distancia_km(p.lat, hs[j].lat)
       IN  IF greedy_better(d, best)
           THEN greedy_scan(p, hs, capacities, j + 1, [h |-> hs[j].id, d |-> Some(d)])
           ELSE greedy_scan(p, hs, capacities, j + 1, best)

greedy_commit_nothing(capacities, hid) == capacities

greedy_commit_two(capacities, hid) == [capacities EXCEPT ![hid] = @ - 2]

greedy_commit(capacities, hid) == [capacities EXCEPT ![hid] = @ - 1]

(* the outer loop; returns the results and the final private capacities *)
RECURSIVE greedy_loop(_, _, _, _)
greedy_loop(ps, hs, capacities, results) ==
  IF ps = <<>> THEN [results |-> results, capacities |-> capacities]
  ELSE LET p == Head(ps)
           best == greedy_scan(p, hs, capacities, 1, [h |-> None, d |-> None])
       IN  IF best.h = None
           THEN greedy_loop(Tail(ps), hs, capacities,
                  Append(results,
                    [patient |-> p.id, hospital |-> None, distance |-> None]))
           ELSE greedy_loop(Tail(ps), hs, greedy_commit(capacities, best.h),
                  Append(results,
                    [patient |-> p.id, hospital |-> best.h, distance |-> best.d]))

greedy_hospitals_decremented(hs, capacities) ==
  [j \in DOMAIN hs |->
     IF hs[j].capacity # None /\ hs[j].capacity[1] > 0
     THEN [hs[j] EXCEPT !.capacity = Some(capacities[hs[j].id])]
     ELSE hs[j]]

greedy_hospitals_shared(hs, capacities) ==
  [j \in DOMAIN hs |-> [hs[j] EXCEPT !.capacity = Some(capacities[hs[j].id])]]

(* the caller's hospital records after the run: the counters live in the private
   dict, the records are only read *)
greedy_hospitals_after(hs, capacities) == hs

greedy_run(ps, hs) ==
  greedy_loop(patients_sorted(ps, Len(ps)), hs,
              greedy_capacities(hs, Len(hs)), <<>>)

greedy_assign(ps, hs) == greedy_run(ps, hs).results

----------------------------------------------------------------------------
(* algorithms/hungarian.py *)

(* graph/graph_utils.py: haversine distance, in grid steps *)
haversine(lat1, lat2) == Abs(lat1 - lat2)

hungarian_cost_zeros(ps, hs) ==
  [i \in 1..Len(ps) |-> [j \in 1..Len(hs) |-> 0]]

hungarian_cost(ps, hs) ==
  [i \in 1..Len(ps) |-> [j \in 1..Len(hs) |-> haversine(ps[i].lat, hs[j].lat)]]

Injections(A, B) == {f \in [A -> B] : \A x, y \in A : x # y => f[x] # f[y]}

(* the complete matchings of an nr x nc matrix: min(nr, nc) pairs <<row, column>>,
   no row and no column twice, listed by ascending row *)
Matchings(nr, nc) ==
  IF nr <= nc
  THEN {[i \in 1..nr |-> <<i, f[i]>>] : f \in Injections(1..nr, 1..nc)}
  ELSE {SelectSeq([r \in 1..nr |->
                     <<r, IF \E c \in 1..nc : f[c] = r
                          THEN CHOOSE c \in 1..nc : f[c] = r ELSE 0>>],
                  LAMBDA rc : rc[2] # 0) : f \in Injections(1..nc, 1..nr)}

MatchingCost(cost, m) == SumSeq([k \in DOMAIN m |-> cost[m[k][1]][m[k][2]]])

(* scipy.optimize.linear_sum_assignment: the minimum-cost complete matchings;
   which of several optima is returned is left to the library *)
linear_sum_assignment(cost, nr, nc) ==
  LET costed == {[m |-> m, cost |-> MatchingCost(cost, m)] : m \in Matchings(nr, nc)}
  IN  {c.m : c \in {c \in costed : \A o \in costed : c.cost <= o.cost}}

hungarian_records(ps, hs, cost, m) ==
  [k \in DOMAIN m |->
     [patient |-> ps[m[k][1]].id,
      hospital |-> hs[m[k][2]].id,
      dist_km |-> cost[m[k][1]][m[k][2]]]]

(* every result hungarian may return *)
hungarian(ps, hs) ==
  LET cost == hungarian_cost(ps, hs)
  IN  {hungarian_records(ps, hs, cost, m) :
         m \in linear_sum_assignment(cost, Len(ps), Len(hs))}

----------------------------------------------------------------------------
(* algorithms/min_cost_flow.py *)

S == <<"S">>
T == <<"T">>

IdsOf(recs) == {recs[i].id : i \in DOMAIN recs}

(* next(r for r in recs if r["id"] == id) *)
ById(recs, id) ==
  recs[CHOOSE i \in DOMAIN recs :
         recs[i].id = id /\ \A k \in DOMAIN recs : recs[k].id = id => i <= k]

mcf_cost_unscaled(d) ==
  LET r == PyRound(d, UnitsPerKm) IN IF r < 1 THEN 1 ELSE r

(* integer edge cost proportional to the distance: int(max(1, round(d * 100))) *)
mcf_cost(d) ==
  LET r == PyRound(d * CostScale, UnitsPerKm) IN IF r < 1 THEN 1 ELSE r

(* capacity of the edge hospital -> T *)
mcf_capacity(h, n_patients) ==
  IF h.capacity = None \/ h.capacity[1] <= 0 THEN n_patients ELSE h.capacity[1]

(* the flow network G: node demands and edge attributes *)
mcf_graph(ps, hs) ==
  LET n_patients == Len(ps)
      pids == IdsOf(ps)
      hids == IdsOf(hs)
      edges == {<<S, p>> : p \in pids} \cup (pids \X hids) \cup {<<h, T>> : h \in hids}
  IN  [demand |-> [x \in {S, T} \cup pids \cup hids |->
                     IF x = S THEN -n_patients ELSE IF x = T THEN n_patients ELSE 0],
       edge |-> [e \in edges |->
                   IF e[1] = S THEN [capacity |-> 1, weight |-> 0]
                   ELSE IF e[2] = T
                        THEN [capacity |-> mcf_capacity(ById(hs, e[1]), n_patients),
                              weight |-> 0]
                        ELSE [capacity |-> 1,
                              weight |-> mcf_cost(distancia_km(ById(ps, e[1]).lat,
                                                               ById(hs, e[2]).lat))]]]

(* networkx.network_simplex.  Every integral flow of a network of this shape
   sends each unit along S -> patient -> hospital -> T, so the flows are
   enumerated from the routings (patient -> hospital or nothing) and kept when
   they respect G's capacities and demands. *)
FlowOfRouting(G, r) ==
  [e \in DOMAIN G.edge |->
     IF e[1] = S THEN (IF r[e[2]] = None THEN 0 ELSE 1)
     ELSE IF e[2] = T THEN Cardinality({p \in DOMAIN r : r[p] = e[1]})
     ELSE IF r[e[1]] = e[2] THEN 1 ELSE 0]

RECURSIVE SumOver(_, _)
SumOver(set, f) ==
  IF set = {} THEN 0
  ELSE LET x == CHOOSE y \in set : TRUE IN f[x] + SumOver(set \ {x}, f)

FlowFeasible(G, f) ==
  /\ \A e \in DOMAIN G.edge : 0 <= f[e] /\ f[e] <= G.edge[e].capacity
  /\ \A x \in DOMAIN G.demand :
       SumOver({e \in DOMAIN G.edge : e[2] = x}, f)
         - SumOver({e \in DOMAIN G.edge : e[1] = x}, f) = G.demand[x]

FlowCost(G, f) == SumOver(DOMAIN G.edge, [e \in DOMAIN G.edge |-> f[e] * G.edge[e].weight])

(* the minimum-cost feasible flows; empty when no flow satisfies the demands
   (network_simplex raises NetworkXUnfeasible) *)
network_simplex(G) ==
  LET pids == {e[2] : e \in {e \in DOMAIN G.edge : e[1] = S}}
      hids == {e[1] : e \in {e \in DOMAIN G.edge : e[2] = T}}
      flows == {FlowOfRouting(G, r) : r \in [pids -> hids \cup {None}]}
      feasible == {f \in flows : FlowFeasible(G, f)}
      costed == {[flow |-> f, cost |-> FlowCost(G, f)] : f \in feasible}
  IN  {c.flow : c \in {c \in costed : \A o \in costed : c.cost <= o.cost}}

mcf_unassigned_empty(ps) == <<>>

(* the except branch: every patient unassigned *)
mcf_unassigned(ps) ==
  [i \in DOMAIN ps |-> [patient |-> ps[i].id, hospital |-> None, distance |-> None]]

mcf_distance_scaled(p, h) ==
  (mcf_cost(distancia_km(p.lat, h.lat)) * UnitsPerKm) \div CostScale

(* distance reported for an assigned pair *)
mcf_distance(p, h) == distancia_km(p.lat, h.lat)

(* the hospital a patient sends flow to (the first one with positive flow) *)
mcf_assigned(hs, f, pid) ==
  LET pos == {j \in DOMAIN hs : f[<<pid, hs[j].id>>] > 0}
  IN  IF pos = {} THEN None
      ELSE hs[CHOOSE j \in pos : \A k \in pos : j <= k].id

mcf_interpret(ps, hs, f) ==
  [i \in DOMAIN ps |->
     LET assigned_h == mcf_assigned(hs, f, ps[i].id)
     IN  IF assigned_h = None
         THEN [patient |-> ps[i].id, hospital |-> None, distance |-> None]
         ELSE [patient |-> ps[i].id, hospital |-> assigned_h,
               distance |-> Some(mcf_distance(ps[i], ById(hs, assigned_h)))]]

min_cost_flow_raises(ps, hs) == {[solved |-> FALSE, out |-> mcf_unassigned(ps)]}

min_cost_flow_partial(ps, hs) ==
  LET sols == network_simplex(mcf_graph(ps, hs))
  IN  IF sols = {}
      THEN {[solved |-> FALSE, out |-> greedy_assign(ps, hs)]}
      ELSE {[solved |-> TRUE, out |-> mcf_interpret(ps, hs, f)] : f \in sols}

(* every outcome min_cost_flow may have: solved tells whether network_simplex
   returned (TRUE) or raised and the except branch ran (FALSE) *)
min_cost_flow(ps, hs) ==
  LET sols == network_simplex(mcf_graph(ps, hs))
  IN  IF sols = {}
      THEN {[solved |-> FALSE, out |-> mcf_unassigned(ps)]}
      ELSE {[solved |-> TRUE, out |-> mcf_interpret(ps, hs, f)] : f \in sols}

----------------------------------------------------------------------------
(* services/business_assignment_service.py *)

(* specialty names, as text *)
Traumatologia == <<"T","r","a","u","m","a","t","o","l","o","g","í","a">>
Cardiologia == <<"C","a","r","d","i","o","l","o","g","í","a">>
Nefrologia == <<"N","e","f","r","o","l","o","g","í","a">>
Pediatria == <<"P","e","d","i","a","t","r","í","a">>
Neumologia == <<"N","e","u","m","o","l","o","g","í","a">>
MedicinaInterna == <<"M","e","d","i","c","i","n","a"," ","I","n","t","e","r","n","a">>

(* the keyword table of infer_specialty, in the order of the dict literal *)
mapping ==
  << <<<<"f","r","a","c","t","u","r","a">>, Traumatologia>>,
     <<<<"l","u","x","a","c","i","ó","n">>, Traumatologia>>,
     <<<<"t","r","a","u","m","a","t","i","s","m","o">>, Traumatologia>>,
     <<<<"t","c","e">>, Traumatologia>>,
     <<<<"i","n","f","a","r","t","o">>, Cardiologia>>,
     <<<<"t","r","o","m","b","o","s","i","s">>, Cardiologia>>,
     <<<<"h","i","p","e","r","t","e","n","s","i","ó","n">>, Cardiologia>>,
     <<<<"r","e","n","a","l">>, Nefrologia>>,
     <<<<"i","n","s","u","f","i","c","i","e","n","c","i","a"," ","r","e","n","a","l">>, Nefrologia>>,
     <<<<"n","i","ñ","o">>, Pediatria>>,
     <<<<"m","e","n","o","r">>, Pediatria>>,
     <<<<"b","r","o","n","c","o","e","s","p","a","s","m","o">>, Neumologia>>,
     <<<<"n","e","u","m","o","n","í","a">>, Neumologia>> >>

(* the first keyword of the table that occurs in the lower-cased text wins *)
RECURSIVE infer_scan(_, _)
infer_scan(e, i) ==
  IF i > Len(mapping) THEN MedicinaInterna
  ELSE IF Contains(e, mapping[i][1]) THEN mapping[i][2]
  ELSE infer_scan(e, i + 1)

infer_specialty(enfermedad) ==
  IF enfermedad = <<>> THEN MedicinaInterna
  ELSE infer_scan(LowerText(enfermedad), 1)

(* diagnosis texts and specialty lists held by the record store *)
Diseases == {None, Some(<<"I","n","f","a","r","t","o">>)}

SpecialtyTexts ==
  {None, Some(<<"C","a","r","d","i","o","l","o","g","í","a",","," ","P","e","d","i","a","t","r","í","a">>),
   Some(<<"M","e","d","i","c","i","n","a"," ","I","n","t","e","r","n","a">>)}

(* ---- record store rows ---- *)

Departments == {"Lima", "Cusco"}

PatientRows ==
  [department : {None} \cup {Some("Lima")}, disease : Diseases, lat : PatientLats]

HospitalRows ==
  [department : {Some(d) : d \in Departments}, specialties : SpecialtyTexts,
   lat : HospitalLats]

(* Python truthiness of an optional text (a tuple of characters) *)
Truthy(v) == v # None /\ Len(v[1]) > 0

(* Python truthiness of an optional department name *)
TruthyName(v) == v # None /\ v[1] # ""

(* Patient.query.filter_by(code=patient_code).first() *)
find_patient(db_p, code) ==
  LET hits == SelectSeq(db_p, LAMBDA p : p.code = code)
  IN  IF hits = <<>> THEN None ELSE Some(hits[1])

offers(h, spec_low) ==
  Truthy(h.specialties) /\ Contains(LowerText(h.specialties[1]), spec_low)

candidates_all(db_h, patient, spec_low) == db_h

(* the candidate hospitals of build_single_patient_inputs *)
candidates_for(db_h, patient, spec_low) ==
  LET hospitals_db ==
        IF TruthyName(patient.department)
        THEN SelectSeq(db_h, LAMBDA h : h.department = patient.department)
        ELSE db_h
      with_spec == SelectSeq(hospitals_db, LAMBDA h : offers(h, spec_low))
  IN  IF with_spec # <<>> THEN with_spec
      ELSE IF hospitals_db # <<>> THEN hospitals_db
      ELSE db_h

patient_dict(patient, specialty) ==
  [id |-> patient.code, code |-> patient.code, lat |-> patient.lat,
   severity |-> patient.severity, department |-> patient.department,
   disease |-> patient.disease, specialty_required |-> specialty]

hospital_dict(h) ==
  [id |-> h.code, code |-> h.code, lat |-> h.lat, department |-> h.department,
   specialties |-> h.specialties, capacity |-> h.capacity]

(* build_single_patient_inputs: None when the patient does not exist (ValueError) *)
build_single_patient_inputs(db_p, db_h, patient_code) ==
  LET found == find_patient(db_p, patient_code)
  IN  IF found = None THEN None
      ELSE LET patient == found[1]
               specialty == infer_specialty(IF patient.disease = None THEN <<>>
                                            ELSE patient.disease[1])
               cands == candidates_for(db_h, patient, LowerText(specialty))
           IN  Some([patient |-> patient_dict(patient, specialty),
                     hospitals |-> [j \in DOMAIN cands |-> hospital_dict(cands[j])]])

(* ---- the configured graph (graph/graph_builder.py, algorithms/dijkstra.py and
        algorithms/bellman_ford.py are not part of the sources at hand) ---- *)

DefaultK == 10
DefaultRadiusKm == 50

Topologies == {"knn", "radius", "bipartite_knn"}

(* GraphBuilder.load_nodes_from_db: patients, then hospitals *)
load_nodes_from_db(db_p, db_h) ==
  [i \in DOMAIN db_p |-> [id |-> db_p[i].code, lat |-> db_p[i].lat, type |-> "patient"]]
  \o [j \in DOMAIN db_h |-> [id |-> db_h[j].code, lat |-> db_h[j].lat, type |-> "hospital"]]

(* the k nearest of the candidate positions cs for node u; ties keep input order *)
Nearest(nodes, u, cs, k) ==
  {v \in cs :
     Cardinality({x \in cs :
        \/ haversine(nodes[u].lat, nodes[x].lat) < haversine(nodes[u].lat, nodes[v].lat)
        \/ /\ haversine(nodes[u].lat, nodes[x].lat) = haversine(nodes[u].lat, nodes[v].lat)
           /\ x < v}) < k}

Edge(nodes, u, v) == <<nodes[u].id, nodes[v].id, haversine(nodes[u].lat, nodes[v].lat)>>

EmptyGraph == [nodes |-> <<>>, edges |-> {}]

build_knn_graph(nodes, k) ==
  LET N == DOMAIN nodes
      near == {<<u, v>> \in N \X N : u # v /\ v \in Nearest(nodes, u, N \ {u}, k)}
  IN  [nodes |-> [i \in N |-> nodes[i].id],
       edges |-> IF Len(nodes) < 2 THEN {}
                 ELSE {Edge(nodes, e[1], e[2]) : e \in near}
                        \cup {Edge(nodes, e[2], e[1]) : e \in near}]

build_radius_graph(nodes, radius) ==
  LET N == DOMAIN nodes
  IN  [nodes |-> [i \in N |-> nodes[i].id],
       edges |-> {Edge(nodes, e[1], e[2]) :
                    e \in {e \in N \X N :
                             e[1] # e[2]
                             /\ haversine(nodes[e[1]].lat, nodes[e[2]].lat) <= radius}}]

build_bipartite_knn_graph(nodes, k) ==
  LET N == DOMAIN nodes
      P == {i \in N : nodes[i].type = "patient"}
      Hs == {i \in N : nodes[i].type = "hospital"}
  IN  [nodes |-> [i \in N |-> nodes[i].id],
       edges |-> {Edge(nodes, e[1], e[2]) :
                    e \in {e \in P \X Hs : e[2] \in Nearest(nodes, e[1], Hs, k)}}]

InGraph(g, id) == \E i \in DOMAIN g.nodes : g.nodes[i] = id

configure_graph_per_request_default(g, db_p, db_h, graph_mode, k, radius_km) ==
  LET kk == IF k = None THEN DefaultK ELSE k[1]
      rr == IF radius_km = None THEN DefaultRadiusKm * UnitsPerKm ELSE radius_km[1]
      nodes == load_nodes_from_db(db_p, db_h)
  IN  IF graph_mode = None \/ graph_mode[1] \in {"", "knn"}
      THEN [raised |-> FALSE, graph |-> build_knn_graph(nodes, kk)]
      ELSE IF graph_mode[1] = "radius"
      THEN [raised |-> FALSE, graph |-> build_radius_graph(nodes, rr)]
      ELSE IF graph_mode[1] = "bipartite_knn"
      THEN [raised |-> FALSE, graph |-> build_bipartite_knn_graph(nodes, kk)]
      ELSE [raised |-> TRUE, graph |-> g]

configure_graph_fallback_knn(g, db_p, db_h, graph_mode, k, radius_km) ==
  IF graph_mode = None \/ graph_mode[1] = "" THEN [raised |-> FALSE, graph |-> g]
  ELSE LET kk == IF k = None THEN DefaultK ELSE k[1]
           rr == IF radius_km = None THEN DefaultRadiusKm * UnitsPerKm ELSE radius_km[1]
           nodes == load_nodes_from_db(db_p, db_h)
       IN  IF graph_mode[1] = "radius"
           THEN [raised |-> FALSE, graph |-> build_radius_graph(nodes, rr)]
           ELSE IF graph_mode[1] = "bipartite_knn"
           THEN [raised |-> FALSE, graph |-> build_bipartite_knn_graph(nodes, kk)]
           ELSE [raised |-> FALSE, graph |-> build_knn_graph(nodes, kk)]

(* configure_graph: the graph after the call, or raised for an unknown mode *)
configure_graph(g, db_p, db_h, graph_mode, k, radius_km) ==
  IF graph_mode = None \/ graph_mode[1] = "" THEN [raised |-> FALSE, graph |-> g]
  ELSE LET kk == IF k = None THEN DefaultK ELSE k[1]
           rr == IF radius_km = None THEN DefaultRadiusKm * UnitsPerKm ELSE radius_km[1]
           nodes == load_nodes_from_db(db_p, db_h)
       IN  IF graph_mode[1] = "knn"
           THEN [raised |-> FALSE, graph |-> build_knn_graph(nodes, kk)]
           ELSE IF graph_mode[1] = "radius"
           THEN [raised |-> FALSE, graph |-> build_radius_graph(nodes, rr)]
           ELSE IF graph_mode[1] = "bipartite_knn"
           THEN [raised |-> FALSE, graph |-> build_bipartite_knn_graph(nodes, kk)]
           ELSE [raised |-> TRUE, graph |-> g]

(* shortest distances from src after at most n relaxation rounds; None = unreachable *)
RECURSIVE Relaxed(_, _, _)
Relaxed(g, src, n) ==
  IF n = 0
  THEN [i \in DOMAIN g.nodes |-> IF g.nodes[i] = src THEN Some(0) ELSE None]
  ELSE LET d == Relaxed(g, src, n - 1)
           Idx(id) == CHOOSE i \in DOMAIN g.nodes : g.nodes[i] = id
           via(i) == {d[Idx(e[1])][1] + e[3] :
                        e \in {e \in g.edges : e[2] = g.nodes[i] /\ d[Idx(e[1])] # None}}
           best(i) == via(i) \cup (IF d[i] = None THEN {} ELSE {d[i][1]})
       IN  [i \in DOMAIN g.nodes |->
              IF best(i) = {} THEN None
              ELSE Some(CHOOSE x \in best(i) : \A y \in best(i) : x <= y)]

shortest_distance(g, src, dst) ==
  Relaxed(g, src, Len(g.nodes) - 1)[CHOOSE i \in DOMAIN g.nodes : g.nodes[i] = dst]

dijkstra(g, src, dst) == shortest_distance(g, src, dst)

bellman_ford(g, src, dst) == shortest_distance(g, src, dst)

compute_path_algorithms_always_run(g, patient_id, hospital_id) ==
  IF ~InGraph(g, patient_id) \/ ~InGraph(g, hospital_id)
  THEN [dijkstra |-> Some([algorithm |-> "Dijkstra", distance |-> None]),
        bellman_ford |-> Some([algorithm |-> "Bellman-Ford", distance |-> None])]
  ELSE [dijkstra |-> Some([algorithm |-> "Dijkstra",
                           distance |-> dijkstra(g, patient_id, hospital_id)]),
        bellman_ford |-> Some([algorithm |-> "Bellman-Ford",
                               distance |-> bellman_ford(g, patient_id, hospital_id)])]

(* compute_path_algorithms: both entries None when a node is not in the graph *)
compute_path_algorithms(g, patient_id, hospital_id) ==
  IF ~InGraph(g, patient_id) \/ ~InGraph(g, hospital_id)
  THEN [dijkstra |-> None, bellman_ford |-> None]
  ELSE [dijkstra |-> Some([algorithm |-> "Dijkstra",
                           distance |-> dijkstra(g, patient_id, hospital_id)]),
        bellman_ford |-> Some([algorithm |-> "Bellman-Ford",
                               distance |-> bellman_ford(g, patient_id, hospital_id)])]

(* ---- the network algorithms (algorithms/kruskal.py, prim.py and
        edmonds_karp.py are not part of the sources at hand) ---- *)

NodesOf(g) == Range(g.nodes)

(* Kruskal: edges by ascending weight, an edge joining two components is kept *)
RECURSIVE kruskal_scan(_, _, _)
kruskal_scan(es, comp, cost) ==
  IF es = {} THEN cost
  ELSE LET e == CHOOSE x \in es : \A y \in es : x[3] <= y[3]
       IN  IF comp[e[1]] = comp[e[2]] THEN kruskal_scan(es \ {e}, comp, cost)
           ELSE kruskal_scan(es \ {e},
                             [n \in DOMAIN comp |->
                                IF comp[n] = comp[e[2]] THEN comp[e[1]] ELSE comp[n]],
                             cost + e[3])

(* total weight of the minimum spanning forest *)
kruskal(g) == kruskal_scan(g.edges, [n \in NodesOf(g) |-> n], 0)

(* Prim: the tree grows by the lightest edge that leaves it *)
RECURSIVE prim_grow(_, _, _)
prim_grow(g, visited, cost) ==
  LET frontier == {e \in g.edges : (e[1] \in visited) # (e[2] \in visited)}
  IN  IF frontier = {} THEN cost
      ELSE LET e == CHOOSE x \in frontier : \A y \in frontier : x[3] <= y[3]
           IN  prim_grow(g, visited \cup {e[1], e[2]}, cost + e[3])

(* total weight of the spanning tree grown from start *)
prim(g, start) == prim_grow(g, {start}, 0)

(* capacity = 1 on every directed edge of the graph, 0 on a missing reverse *)
unit_capacity(g) == {<<e[1], e[2]>> : e \in g.edges}

(* the maximum flow value, as the least number of unit arcs that leave a set of
   nodes holding the source and not the sink *)
edmonds_karp(capacity, nodes, source, sink) ==
  LET cuts == {X \in SUBSET nodes : source \in X /\ sink \notin X}
      size(X) == Cardinality({a \in capacity : a[1] \in X /\ a[2] \notin X})
  IN  size(CHOOSE X \in cuts : \A Y \in cuts : size(X) <= size(Y))

(* run_network_algorithms on the graph it reads *)
run_network_algorithms(g) ==
  <<[name |-> "Kruskal", value |-> kruskal(g), source |-> None, sink |-> None]>>
  \o (IF Len(g.nodes) > 0
      THEN <<[name |-> "Prim", value |-> prim(g, g.nodes[1]),
              source |-> None, sink |-> None]>>
      ELSE <<>>)
  \o (IF Len(g.nodes) >= 2
      THEN <<[name |-> "Edmonds-Karp",
              value |-> edmonds_karp(unit_capacity(g), NodesOf(g),
                                     g.nodes[1], g.nodes[2]),
              source |-> Some(g.nodes[1]), sink |-> Some(g.nodes[2])]>>
      ELSE <<>>)

(* ---- comparison of the three strategies for one patient ---- *)

(* find_assignment: the first record that names the patient, or None *)
find_assignment(assignments, patient_id) ==
  LET hits == SelectSeq(assignments, LAMBDA a : a.patient = patient_id)
  IN  IF hits = <<>> THEN None ELSE Some(hits[1])

(* run_assignment_algorithms_for_patient: every list of raw results the three
   calls may produce, in the order Greedy, Hungarian, Min-Cost Max-Flow *)
run_assignment_algorithms_for_patient(patient, hs) ==
  LET patients_input == <<patient>>
      greedy_asg == find_assignment(greedy_assign(patients_input, hs), patient.id)
  IN  {<<[name |-> "Greedy", raw_assignment |-> greedy_asg],
         [name |-> "Hungarian", raw_assignment |-> find_assignment(hung_out, patient.id)],
         [name |-> "Min-Cost Max-Flow",
          raw_assignment |-> find_assignment(mcmf.out, patient.id)]>> :
         <<hung_out, mcmf>> \in hungarian(patients_input, hs)
                                 \X min_cost_flow(patients_input, hs)}

NoHospital(name) ==
  [name |-> name, hospital |-> None, distance_geo_km |-> None, paths |-> None]

(* one entry of assignment_algorithms *)
assignment_entry(g, patient, hs, ar) ==
  IF ar.raw_assignment = None THEN NoHospital(ar.name)
  ELSE LET hosp_id == ar.raw_assignment[1].hospital
       IN  IF hosp_id = None \/ hosp_id \notin IdsOf(hs) THEN NoHospital(ar.name)
           ELSE LET hosp == hs[CHOOSE j \in DOMAIN hs :
                                 hs[j].id = hosp_id
                                 /\ \A k \in DOMAIN hs : hs[k].id = hosp_id => k <= j]
                IN  [name |-> ar.name,
                     hospital |-> Some([id |-> hosp.id, code |-> hosp.code,
                                        department |-> hosp.department,
                                        lat |-> hosp.lat,
                                        specialties |-> hosp.specialties]),
                     distance_geo_km |-> Some(distancia_km(patient.lat, hosp.lat)),
                     paths |-> Some(compute_path_algorithms(g, patient.id, hosp_id))]

(* compare_all_algorithms_for_patient: every report it may return, or None when
   the patient does not exist (ValueError) *)
compare_all_algorithms_for_patient(g, db_p, db_h, patient_code) ==
  LET inputs == build_single_patient_inputs(db_p, db_h, patient_code)
  IN  IF inputs = None THEN {None}
      ELSE LET patient == inputs[1].patient
               hs == inputs[1].hospitals
           IN  {Some([patient |-> [code |-> patient.code, severity |-> patient.severity,
                                   department |-> patient.department,
                                   disease |-> patient.disease, lat |-> patient.lat],
                      specialty_required |-> patient.specialty_required,
                      assignment_algorithms |->
                        [i \in DOMAIN raw |-> assignment_entry(g, patient, hs, raw[i])],
                      network_algorithms |-> run_network_algorithms(g)]) :
                  raw \in run_assignment_algorithms_for_patient(patient, hs)}

priority_reversed == <<"Greedy", "Hungarian", "Min-Cost Max-Flow">>

priority == <<"Min-Cost Max-Flow", "Hungarian", "Greedy">>

(* the selection loop of assign_best_hospital_for_patient *)
RECURSIVE choose_entry(_, _)
choose_entry(algos, i) ==
  IF i > Len(priority) THEN None
  ELSE LET hits == SelectSeq(algos, LAMBDA a : a.name = priority[i] /\ a.hospital # None)
       IN  IF hits # <<>> THEN Some(hits[1]) ELSE choose_entry(algos, i + 1)

(* assign_best_hospital_for_patient on a report: None when no entry has a hospital
   (ValueError) *)
assign_best_hospital_for_patient(full) ==
  LET chosen == choose_entry(full.assignment_algorithms, 1)
  IN  IF chosen = None THEN None
      ELSE Some([patient |-> full.patient,
                 specialty_required |-> full.specialty_required,
                 algorithm_used |-> chosen[1].name,
                 hospital |-> chosen[1].hospital,
                 distance_geo_km |-> chosen[1].distance_geo_km,
                 paths |-> chosen[1].paths])

----------------------------------------------------------------------------
(* The solver runs. *)

PatientRecords ==
  [severity : Severities, lat : PatientLats]

HospitalRecords ==
  [capacity : Capacities, lat : HospitalLats]

NotRun == [alg |-> "none", solved |-> FALSE, out |-> <<>>]

NoResponse ==
  [endpoint |-> "", status |-> 0, error |-> "", body |-> None, full |-> None,
   candidates |-> None]

(* the strategies called directly on drawn lists; the service is idle *)
Init ==
  /\ \E n \in 0..MaxPatients : \E f \in [1..n -> PatientRecords] :
       patients = [i \in 1..n |->
                     [id |-> Pid(i), severity |-> f[i].severity, lat |-> f[i].lat]]
  /\ \E m \in 0..MaxHospitals : \E f \in [1..m -> HospitalRecords] :
       hospitals = [j \in 1..m |->
                     [id |-> Hid(j), capacity |-> f[j].capacity, lat |-> f[j].lat]]
  /\ last = NotRun
  /\ prev = NotRun
  /\ TextIdle /\ OrsIdle /\ ConcIdle
  /\ db_patients = <<>>
  /\ db_hospitals = <<>>
  /\ graph = EmptyGraph
  /\ resp = NoResponse
  /\ requests = 0
  /\ log = <<>>

(* a strategy is called first, or after a call of greedy_assign *)
CanRun == last.alg \in {"none", "greedy"}

GreedyAssign ==
  /\ CanRun
  /\ LET run == greedy_run(patients, hospitals)
     IN  /\ last' = [alg |-> "greedy", solved |-> TRUE, out |-> run.results]
         /\ hospitals' = greedy_hospitals_after(hospitals, run.capacities)
  /\ prev' = last
  /\ UNCHANGED <<patients, service_vars, text_vars, ors_vars, conc_vars>>

Hungarian ==
  /\ CanRun
  /\ \E out \in hungarian(patients, hospitals) :
       last' = [alg |-> "hungarian", solved |-> TRUE, out |-> out]
  /\ prev' = NotRun
  /\ UNCHANGED <<patients, hospitals, service_vars, text_vars, ors_vars, conc_vars>>

MinCostFlow ==
  /\ CanRun
  /\ \E r \in min_cost_flow(patients, hospitals) :
       last' = [alg |-> "mcf", solved |-> r.solved, out |-> r.out]
  /\ prev' = NotRun
  /\ UNCHANGED <<patients, hospitals, service_vars, text_vars, ors_vars, conc_vars>>

Next == GreedyAssign \/ Hungarian \/ MinCostFlow

Spec == Init /\ [][Next]_vars

----------------------------------------------------------------------------
(* routes/route_business.py: the HTTP handlers on the process-wide service. *)

AbsentCode == Pid(0)

(* request bodies: patient code (missing, absent from the store, or stored) and
   the graph selection *)
Requests ==
  [patient_code : {None, AbsentCode} \cup {Pid(i) : i \in 1..MaxDbPatients},
   graph_mode : {None}, k : {None}, radius_km : {None}]
  \cup [patient_code : {None, AbsentCode} \cup {Pid(i) : i \in 1..MaxDbPatients},
        graph_mode : {Some("knn"), Some("bipartite_knn")}, k : {None, Some(1)},
        radius_km : {None}]
  \cup [patient_code : {None, AbsentCode} \cup {Pid(i) : i \in 1..MaxDbPatients},
        graph_mode : {Some("radius")}, k : {None}, radius_km : {None, Some(1)}]
  \cup [patient_code : {None, AbsentCode} \cup {Pid(i) : i \in 1..MaxDbPatients},
        graph_mode : {Some("hexagonal")}, k : {None}, radius_km : {None}]

(* the service is built on the first request, with the default graph of
   RoutingService: one of the topologies with its default parameters *)
SvcInit ==
  /\ patients = <<>>
  /\ hospitals = <<>>
  /\ last = NotRun
  /\ prev = NotRun
  /\ TextIdle /\ OrsIdle /\ ConcIdle
  /\ \E n \in 1..MaxDbPatients : \E f \in [1..n -> PatientRows] :
       db_patients = [i \in 1..n |->
                        [code |-> Pid(i), department |-> f[i].department,
                         disease |-> f[i].disease, severity |-> <<"L","e","v","e">>,
                         lat |-> f[i].lat]]
  /\ \E m \in 0..MaxDbHospitals : \E f \in [1..m -> HospitalRows] :
       db_hospitals = [j \in 1..m |->
                         [code |-> Hid(j), department |-> f[j].department,
                          specialties |-> f[j].specialties, capacity |-> Some(1),
                          lat |-> f[j].lat]]
  /\ \E mode \in Topologies :
       graph = configure_graph(EmptyGraph, db_patients, db_hospitals,
                               Some(mode), None, None).graph
  /\ resp = NoResponse
  /\ requests = 0
  /\ log = <<>>

Response(endpoint, status, error, body, full, candidates) ==
  [endpoint |-> endpoint, status |-> status, error |-> error, body |-> body,
   full |-> full, candidates |-> candidates]

post_api_assign_compare_patient_lookup_first(req) ==
  IF req.patient_code = None
  THEN /\ resp' = Response("compare-patient", 400, "patient_code", None, None, None)
       /\ graph' = graph
  ELSE LET conf == configure_graph(graph, db_patients, db_hospitals,
                                   req.graph_mode, req.k, req.radius_km)
           inputs == build_single_patient_inputs(db_patients, db_hospitals,
                                                 req.patient_code)
       IN  IF inputs = None
           THEN /\ resp' = Response("compare-patient", 404, "patient",
                                    None, None, None)
                /\ graph' = graph
           ELSE IF conf.raised
           THEN /\ resp' = Response("compare-patient", 404, "graph_mode",
                                    None, None, None)
                /\ graph' = graph
           ELSE /\ graph' = conf.graph
                /\ \E full \in compare_all_algorithms_for_patient(
                                 conf.graph, db_patients, db_hospitals, req.patient_code) :
                     resp' = Response("compare-patient", 200, "", full, full,
                                      Some(inputs[1].hospitals))

(* POST /api/assign/compare-patient *)
post_api_assign_compare_patient(req) ==
  IF req.patient_code = None
  THEN /\ resp' = Response("compare-patient", 400, "patient_code", None, None, None)
       /\ graph' = graph
  ELSE LET conf == configure_graph(graph, db_patients, db_hospitals,
                                   req.graph_mode, req.k, req.radius_km)
           inputs == build_single_patient_inputs(db_patients, db_hospitals,
                                                 req.patient_code)
       IN  IF conf.raised
           THEN /\ resp' = Response("compare-patient", 404, "graph_mode",
                                    None, None, None)
                /\ graph' = graph
           ELSE /\ graph' = conf.graph
                /\ \E full \in compare_all_algorithms_for_patient(
                                 conf.graph, db_patients, db_hospitals, req.patient_code) :
                     IF full = None
                     THEN resp' = Response("compare-patient", 404, "patient",
                                           None, None, None)
                     ELSE resp' = Response("compare-patient", 200, "", full, full,
                                           Some(inputs[1].hospitals))

(* POST /api/assign/patient-best *)
post_api_assign_patient_best(req) ==
  IF req.patient_code = None
  THEN /\ resp' = Response("patient-best", 400, "patient_code", None, None, None)
       /\ graph' = graph
  ELSE LET conf == configure_graph(graph, db_patients, db_hospitals,
                                   req.graph_mode, req.k, req.radius_km)
           inputs == build_single_patient_inputs(db_patients, db_hospitals,
                                                 req.patient_code)
       IN  IF conf.raised
           THEN /\ resp' = Response("patient-best", 404, "graph_mode", None, None, None)
                /\ graph' = graph
           ELSE /\ graph' = conf.graph
                /\ \E full \in compare_all_algorithms_for_patient(
                                 conf.graph, db_patients, db_hospitals, req.patient_code) :
                     IF full = None
                     THEN resp' = Response("patient-best", 404, "patient",
                                           None, None, None)
                     ELSE LET best == assign_best_hospital_for_patient(full[1])
                          IN  IF best = None
                              THEN resp' = Response("patient-best", 404, "no hospital",
                                                    None, full,
                                                    Some(inputs[1].hospitals))
                              ELSE resp' = Response("patient-best", 200, "", best, full,
                                                    Some(inputs[1].hospitals))

PostAssignComparePatient ==
  /\ requests < MaxRequests
  /\ requests' = requests + 1
  /\ \E req \in Requests : post_api_assign_compare_patient(req)
  /\ UNCHANGED <<solver_vars, db_patients, db_hospitals, log, text_vars, ors_vars,
                 conc_vars>>

PostAssignPatientBest ==
  /\ requests < MaxRequests
  /\ requests' = requests + 1
  /\ \E req \in Requests : post_api_assign_patient_best(req)
  /\ UNCHANGED <<solver_vars, db_patients, db_hospitals, log, text_vars, ors_vars,
                 conc_vars>>

SvcNext == PostAssignComparePatient \/ PostAssignPatientBest

SvcSpec == SvcInit /\ [][SvcNext]_vars

----------------------------------------------------------------------------
(* Properties of the assignment strategies. *)

Ran == last.alg # "none"

PositiveCapacity(h) == h.capacity # None /\ h.capacity[1] > 0

AssignedTo(out, hid) == Cardinality({k \in DOMAIN out : out[k].hospital = hid})

Unassigned(out) == {k \in DOMAIN out : out[k].hospital = None}

(* index in the input list of the patient a result record names *)
InputIndex(rec) == CHOOSE i \in DOMAIN patients : patients[i].id = rec.patient

Rank(rec) == severity_rank(patients[InputIndex(rec)].severity)

(* C1: after a run of any strategy, the number of assignments naming a hospital
   never exceeds that hospital's starting capacity, for every hospital whose
   starting capacity is a positive integer. *)
C1_CapacityNeverExceeded ==
  Ran => \A j \in DOMAIN hospitals :
           PositiveCapacity(hospitals[j]) =>
             AssignedTo(last.out, hospitals[j].id) <= hospitals[j].capacity[1]

(* a greedy run that fills a hospital of capacity 2 and has to send a third
   patient elsewhere or nowhere *)
C1_Witness ==
  /\ last.alg = "greedy"
  /\ Len(patients) = 3
  /\ \E j \in DOMAIN hospitals :
       /\ hospitals[j].capacity = Some(2)
       /\ AssignedTo(last.out, hospitals[j].id) = 2

(* C2: every strategy returns exactly one record per input patient: the output
   has as many records as there are patients and each patient id appears in
   exactly one of them. *)
C2_OneRecordPerPatient ==
  Ran => /\ Len(last.out) = Len(patients)
         /\ \A i \in DOMAIN patients :
              Cardinality({k \in DOMAIN last.out :
                             last.out[k].patient = patients[i].id}) = 1

(* C3: greedy_assign lists the patients by ascending severity rank, patients of
   equal rank in input order, and a second run on the same lists returns the
   same sequence of records as the run before it. *)
C3_GreedyStableDeterministic ==
  last.alg = "greedy" =>
    /\ Len(last.out) = Len(patients)
    /\ \A k, l \in DOMAIN last.out :
         k < l =>
           \/ Rank(last.out[k]) < Rank(last.out[l])
           \/ /\ Rank(last.out[k]) = Rank(last.out[l])
              /\ InputIndex(last.out[k]) < InputIndex(last.out[l])
    /\ prev.alg = "greedy" => last.out = prev.out

(* a second greedy run whose order differs from the input order and keeps two
   patients of equal rank in input order *)
C3_Witness ==
  /\ last.alg = "greedy"
  /\ prev.alg = "greedy"
  /\ Len(last.out) = 3
  /\ last.out[1].patient = Pid(2)
  /\ Rank(last.out[2]) = Rank(last.out[3])
  /\ last.out[1].hospital # None

(* the example of C4: severities grave, mild, moderate in input order, two
   hospitals of capacity 1, one of them strictly nearer to all three patients *)
C4_Example(h1, h2) ==
  /\ Len(patients) = 3
  /\ severity_rank(patients[1].severity) = 0
  /\ patients[2].severity = <<"L","e","v","e">>
  /\ patients[3].severity = <<"M","o","d","e","r","a","d","o">>
  /\ DOMAIN hospitals = {h1, h2}
  /\ h1 # h2
  /\ hospitals[h1].capacity = Some(1)
  /\ hospitals[h2].capacity = Some(1)
  /\ \A i \in 1..3 : Abs(patients[i].lat - hospitals[h1].lat)
                       < Abs(patients[i].lat - hospitals[h2].lat)

HospitalOf(out, pid) ==
  out[CHOOSE k \in DOMAIN out : out[k].patient = pid].hospital

(* C4: under scarce capacity Greedy serves by severity: in the example the grave
   patient gets H1, the moderate patient H2 and the mild patient no hospital; and
   in every run no patient is assigned while a more severe one is unassigned. *)
C4_GreedyServesBySeverity ==
  last.alg = "greedy" =>
    /\ \A h1, h2 \in DOMAIN hospitals :
         C4_Example(h1, h2) =>
           /\ HospitalOf(last.out, patients[1].id) = hospitals[h1].id
           /\ HospitalOf(last.out, patients[3].id) = hospitals[h2].id
           /\ HospitalOf(last.out, patients[2].id) = None
    /\ \A k, l \in DOMAIN last.out :
         (Rank(last.out[k]) < Rank(last.out[l]) /\ last.out[k].hospital = None)
           => last.out[l].hospital = None

C4_Witness ==
  /\ last.alg = "greedy"
  /\ \E h1, h2 \in DOMAIN hospitals : C4_Example(h1, h2)
  /\ Cardinality(Unassigned(last.out)) = 1

(* C5: min_cost_flow on 2 patients and 1 hospital of capacity 2 assigns both
   patients to that hospital, each with the direct haversine distance between
   the patient and the hospital. *)
C5_TwoPatientsOneHospital ==
  (last.alg = "mcf" /\ Len(patients) = 2 /\ Len(hospitals) = 1
     /\ hospitals[1].capacity = Some(2))
  => /\ Len(last.out) = 2
     /\ \A i \in 1..2 :
          last.out[i] = [patient |-> patients[i].id,
                         hospital |-> hospitals[1].id,
                         distance |-> Some(Abs(patients[i].lat - hospitals[1].lat))]

C5_Witness ==
  /\ last.alg = "mcf" /\ Len(patients) = 2 /\ Len(hospitals) = 1
  /\ hospitals[1].capacity = Some(2)
  /\ last.out[1].distance = Some(3)
  /\ last.out[2].distance = Some(1)

(* the assignments of every patient to a hospital (by list index) that keep each
   hospital of positive capacity within it *)
CompleteAssignments ==
  {a \in [DOMAIN patients -> DOMAIN hospitals] :
     \A j \in DOMAIN hospitals :
       PositiveCapacity(hospitals[j]) =>
         Cardinality({i \in DOMAIN patients : a[i] = j}) <= hospitals[j].capacity[1]}

AllUnassigned ==
  [i \in DOMAIN patients |->
     [patient |-> patients[i].id, hospital |-> None, distance |-> None]]

(* C6: when the solver fails, which it does whenever no assignment of every
   patient fits the capacities (too little capacity, or no hospital while there
   are patients), min_cost_flow returns one record per patient with hospital
   none and distance none. *)
C6_FailureDegradesToUnassigned ==
  last.alg = "mcf" =>
    /\ CompleteAssignments = {} => ~last.solved
    /\ ~last.solved => last.out = AllUnassigned

C6_Witness ==
  /\ last.alg = "mcf"
  /\ ~last.solved
  /\ Len(patients) = 3
  /\ Len(hospitals) = 2
  /\ last.out = AllUnassigned

(* the integer-scaled distance max(1, round(100 * d)) of patient i and hospital j *)
ScaledDistance(i, j) ==
  LET r == PyRound(Abs(patients[i].lat - hospitals[j].lat) * 100, 200)
  IN  IF r < 1 THEN 1 ELSE r

HospitalIndex(hid) == CHOOSE j \in DOMAIN hospitals : hospitals[j].id = hid

(* C7: when min_cost_flow succeeds, every patient has a hospital, every hospital
   of positive capacity is within it, and the sum of the integer-scaled
   distances of the assigned pairs is minimal among all assignments of every
   patient that respect the capacities. *)
C7_FlowRespectsCapacityAtMinimalCost ==
  (last.alg = "mcf" /\ last.solved) =>
    /\ Len(last.out) = Len(patients)
    /\ \A i \in DOMAIN last.out :
         last.out[i].patient = patients[i].id /\ last.out[i].hospital # None
    /\ LET got == [i \in DOMAIN patients |-> HospitalIndex(last.out[i].hospital)]
           Cost(a) == SumSeq([i \in DOMAIN patients |-> ScaledDistance(i, a[i])])
       IN  /\ got \in CompleteAssignments
           /\ \A a \in CompleteAssignments : Cost(got) <= Cost(a)

(* three patients, a hospital of capacity 2 that takes two of them, and one
   patient sent to the hospital that is farther for it *)
C7_Witness ==
  /\ last.alg = "mcf" /\ last.solved
  /\ Len(patients) = 3
  /\ \E j \in DOMAIN hospitals :
       hospitals[j].capacity = Some(2) /\ AssignedTo(last.out, hospitals[j].id) = 2
  /\ \E i \in DOMAIN last.out : last.out[i].distance = Some(3)

(* the sets of patient-hospital index pairs with no patient and no hospital twice *)
PairMatchings(n) ==
  {m \in SUBSET ((DOMAIN patients) \X (DOMAIN hospitals)) :
     /\ Cardinality(m) = n
     /\ \A x, y \in m : x # y => (x[1] # y[1] /\ x[2] # y[2])}

PairDistance(x) == Abs(patients[x[1]].lat - hospitals[x[2]].lat)

RECURSIVE TotalDistance(_)
TotalDistance(m) ==
  IF m = {} THEN 0
  ELSE LET x == CHOOSE y \in m : TRUE IN PairDistance(x) + TotalDistance(m \ {x})

(* C8: hungarian returns exactly min(P, H) patient-hospital pairs, no patient and
   no hospital twice whatever the capacities, and the sum of the pair distances
   is minimal among all such matchings of size min(P, H). *)
C8_HungarianMinimalMatching ==
  last.alg = "hungarian" =>
    LET n == Min2(Len(patients), Len(hospitals))
        got == {<<InputIndex(last.out[k]), HospitalIndex(last.out[k].hospital)>> :
                  k \in DOMAIN last.out}
    IN  /\ Len(last.out) = n
        /\ \A k \in DOMAIN last.out :
             /\ last.out[k].patient \in IdsOf(patients)
             /\ last.out[k].hospital \in IdsOf(hospitals)
        /\ got \in PairMatchings(n)
        /\ \A m \in PairMatchings(n) : TotalDistance(got) <= TotalDistance(m)

(* three patients compete for two hospitals, and the matching leaves out a
   patient and uses a far pair *)
C8_Witness ==
  /\ last.alg = "hungarian"
  /\ Len(patients) = 3 /\ Len(hospitals) = 2
  /\ Len(last.out) = 2
  /\ \E k \in DOMAIN last.out : last.out[k].dist_km = 3

----------------------------------------------------------------------------
(* Properties of the single-patient service. *)

Answered == resp.full # None

Order == <<"Min-Cost Max-Flow", "Hungarian", "Greedy">>

EntryNamed(algos, name) == algos[CHOOSE i \in DOMAIN algos : algos[i].name = name]

(* best is the entry of the first strategy of Order that has a hospital *)
SelectedInOrder(algos, best) ==
  \E i \in DOMAIN Order :
    LET e == EntryNamed(algos, Order[i])
    IN  /\ e.hospital # None
        /\ \A j \in 1..(i - 1) : EntryNamed(algos, Order[j]).hospital = None
        /\ best.algorithm_used = Order[i]
        /\ best.hospital = e.hospital
        /\ best.distance_geo_km = e.distance_geo_km
        /\ best.paths = e.paths

(* the report with the entries at the positions of blank left without hospital *)
Blanked(full, blank) ==
  [full EXCEPT !.assignment_algorithms =
     [i \in DOMAIN @ |-> IF i \in blank THEN NoHospital(@[i].name) ELSE @[i]]]

(* C9: assign_best_hospital_for_patient returns the entry of the first strategy,
   in the order Min-Cost Max-Flow, Hungarian, Greedy, that has a hospital, with
   that entry's hospital, distance and paths; it fails exactly when no entry has
   a hospital.  This holds of the answer given and of the selection applied to
   the report with any of its entries left without hospital. *)
C9_FirstStrategyInPriorityOrder ==
  Answered =>
    /\ (resp.endpoint = "patient-best" /\ resp.status = 200) =>
         SelectedInOrder(resp.full[1].assignment_algorithms, resp.body[1])
    /\ (resp.endpoint = "patient-best" /\ resp.status # 200) =>
         \A i \in DOMAIN resp.full[1].assignment_algorithms :
           resp.full[1].assignment_algorithms[i].hospital = None
    /\ \A blank \in SUBSET (DOMAIN resp.full[1].assignment_algorithms) :
         LET report == Blanked(resp.full[1], blank)
             best == assign_best_hospital_for_patient(report)
         IN  IF \A i \in DOMAIN report.assignment_algorithms :
                  report.assignment_algorithms[i].hospital = None
             THEN best = None
             ELSE best # None
                  /\ SelectedInOrder(report.assignment_algorithms, best[1])

(* two candidates at the same distance: Greedy keeps the first, Min-Cost Max-Flow
   routes to the second, and the answer is the one of Min-Cost Max-Flow *)
C9_Witness ==
  /\ resp.endpoint = "patient-best"
  /\ resp.status = 200
  /\ resp.body[1].algorithm_used = "Min-Cost Max-Flow"
  /\ EntryNamed(resp.full[1].assignment_algorithms, "Greedy").hospital # None
  /\ EntryNamed(resp.full[1].assignment_algorithms, "Greedy").hospital
       # resp.body[1].hospital

(* the codes of a list of hospitals, in order *)
Codes(hs) == [j \in DOMAIN hs |-> hs[j].code]

Asked == resp.full[1].patient

AskedSpecialty == LowerText(resp.full[1].specialty_required)

InRegion(h) == h.department = Asked.department

OffersAsked(h) ==
  h.specialties # None /\ Contains(LowerText(h.specialties[1]), AskedSpecialty)

(* the first non-empty list of the three *)
FirstNonEmpty(a, b, c) == IF a # <<>> THEN a ELSE IF b # <<>> THEN b ELSE c

(* C10 as stated: the candidates are the hospitals of the patient's region that
   offer the required specialty if there are any, otherwise the hospitals of the
   patient's region if there are any, otherwise all the hospitals. *)
C10_FallbackByRegionOfPatient ==
  Answered =>
    Codes(resp.candidates[1]) =
      Codes(FirstNonEmpty(
              SelectSeq(db_hospitals, LAMBDA h : InRegion(h) /\ OffersAsked(h)),
              SelectSeq(db_hospitals, InRegion),
              db_hospitals))

(* C10: for a patient with a region the candidates are the hospitals of that
   region that offer the required specialty if there are any, otherwise the
   hospitals of that region if there are any, otherwise all the hospitals; for
   a patient without a region they are the hospitals of any region that offer
   the specialty if there are any, otherwise all the hospitals.  The list is
   empty only when the store holds no hospital. *)
C10_FallbackByRegionWhenPatientHasOne ==
  Answered =>
    /\ Codes(resp.candidates[1]) =
         IF TruthyName(Asked.department)
         THEN Codes(FirstNonEmpty(
                      SelectSeq(db_hospitals, LAMBDA h : InRegion(h) /\ OffersAsked(h)),
                      SelectSeq(db_hospitals, InRegion),
                      db_hospitals))
         ELSE Codes(FirstNonEmpty(SelectSeq(db_hospitals, OffersAsked),
                                  db_hospitals, db_hospitals))
    /\ resp.candidates[1] = <<>> => db_hospitals = <<>>

(* a patient without a region, and of two stored hospitals only the one that
   offers the required specialty is a candidate *)
C10_Witness ==
  /\ Answered
  /\ Asked.department = None
  /\ Len(db_hospitals) = 2
  /\ Len(resp.candidates[1]) = 1
  /\ OffersAsked(resp.candidates[1][1])

(* a patient with a region whose hospitals do not offer the specialty: the
   candidates are the hospitals of the region, and another region's hospital
   that offers the specialty is left out *)
C10_RegionKept ==
  /\ Answered
  /\ TruthyName(Asked.department)
  /\ Len(db_hospitals) = 2
  /\ Len(resp.candidates[1]) = 1
  /\ ~OffersAsked(resp.candidates[1][1])
  /\ \E j \in DOMAIN db_hospitals : OffersAsked(db_hospitals[j])

----------------------------------------------------------------------------
(* infer_specialty on diagnosis texts. *)

(* no strategy was called on its own *)
SolverIdle == patients = <<>> /\ hospitals = <<>> /\ last = NotRun /\ prev = NotRun

(* no service was built *)
ServiceIdle ==
  /\ db_patients = <<>>
  /\ db_hospitals = <<>>
  /\ graph = EmptyGraph
  /\ resp = NoResponse
  /\ requests = 0
  /\ log = <<>>

(* str.upper(), one character *)
Upper(c) ==
  IF \E i \in DOMAIN LowerChars : LowerChars[i] = c
  THEN UpperChars[CHOOSE i \in DOMAIN LowerChars : LowerChars[i] = c]
  ELSE c

Keywords == {mapping[i][1] : i \in DOMAIN mapping}

(* diagnosis texts: empty, without keyword, one keyword in lower or upper case,
   and two keywords in either order *)
DiagnosisTexts ==
  {<<>>, <<"g","r","i","p","e">>}
  \cup Keywords
  \cup {[i \in DOMAIN k |-> Upper(k[i])] : k \in Keywords}
  \cup {k1 \o <<" ">> \o k2 : k1 \in Keywords, k2 \in Keywords}

InferInit ==
  /\ SolverIdle /\ ServiceIdle /\ OrsIdle /\ ConcIdle
  /\ diagnosis \in {Some(t) : t \in DiagnosisTexts}
  /\ inferred = None

(* specialty = self.infer_specialty(patient.disease or "") *)
InferSpecialty ==
  /\ diagnosis # None
  /\ inferred = None
  /\ inferred' = Some(infer_specialty(diagnosis[1]))
  /\ UNCHANGED <<diagnosis, solver_vars, service_vars, ors_vars, conc_vars>>

InferNext == InferSpecialty

InferSpec == InferInit /\ [][InferNext]_vars

GeneralMedicine ==
  <<"G","e","n","e","r","a","l"," ","M","e","d","i","c","i","n","e">>

(* the table positions of the keywords that occur in the text, whatever the case *)
KeywordHits(text) ==
  {i \in DOMAIN mapping : Contains(LowerText(text), mapping[i][1])}

FirstHit(text) == CHOOSE i \in KeywordHits(text) : \A j \in KeywordHits(text) : i <= j

(* C11: infer_specialty returns the specialty of the first keyword of the table
   that occurs in the diagnosis text, and "General Medicine" when no keyword
   occurs or the text is empty. *)
C11_FirstKeywordOrGeneralMedicine ==
  inferred # None =>
    inferred[1] = IF KeywordHits(diagnosis[1]) = {} THEN GeneralMedicine
                  ELSE mapping[FirstHit(diagnosis[1])][2]

----------------------------------------------------------------------------
(* Properties of the error outcomes of the two handlers. *)

(* C12: the absent patient is answered 404, and no other failure of
   compare-patient or patient-best (unknown graph mode, no assignable hospital)
   is answered with that same outcome. *)
C12_NotFoundOnlyForAbsentPatient ==
  /\ resp.error = "patient" => resp.status = 404
  /\ resp.status = 404 => resp.error = "patient"

(* C13: once the patient was found and the graph configuration accepted, the
   request is answered without error (infeasibility shows as hospital-less
   entries of the report), and an error answer comes only from an absent
   patient, an invalid configuration or a request without patient code. *)
C13_OnlyNotFoundAndConfigurationFail ==
  /\ Answered => resp.status = 200
  /\ resp.status \notin {0, 200} => resp.error \in {"patient", "graph_mode", "patient_code"}

----------------------------------------------------------------------------
(* Comparison requests served by concurrent threads on the process-wide service
   (app.run serves each request in its own thread; get_service hands every
   thread the same BusinessAssignmentService).  A thread's step reads or writes
   self.graph once: the work between two accesses touches no shared state. *)

MaxThreads == 2

(* compare-patient bodies for a stored patient: no graph_mode, or a topology *)
ConcRequests ==
  [patient_code : {Pid(1)}, graph_mode : {None, Some("knn"), Some("bipartite_knn")},
   k : {None}, radius_km : {None}]
  \cup [patient_code : {Pid(1)}, graph_mode : {Some("radius")}, k : {None},
        radius_km : {Some(1)}]

(* a request that has entered post_api_assign_compare_patient *)
NewThread(req) ==
  [req |-> req, pc |-> "configure", configured |-> None, inputs |-> None,
   raw |-> <<>>, entries |-> <<>>, network |-> <<>>, used |-> {}, status |-> 0]

ConcInit ==
  /\ SolverIdle /\ TextIdle /\ OrsIdle
  /\ \E lat \in PatientLats :
       db_patients = <<[code |-> Pid(1), department |-> None, disease |-> None,
                        severity |-> <<"L","e","v","e">>, lat |-> lat]>>
  /\ \E m \in 1..MaxDbHospitals : \E f \in [1..m -> HospitalLats] :
       db_hospitals = [j \in 1..m |->
                         [code |-> Hid(j), department |-> Some("Lima"),
                          specialties |-> None, capacity |-> Some(1), lat |-> f[j]]]
  /\ \E mode \in Topologies :
       graph = configure_graph(EmptyGraph, db_patients, db_hospitals,
                               Some(mode), None, None).graph
  /\ resp = NoResponse
  /\ requests = 0
  /\ log = <<>>
  /\ threads \in [1..MaxThreads -> {NewThread(req) : req \in ConcRequests}]

(* service.configure_graph(...), then the part of compare_all_algorithms_for_patient
   that runs before the first read of self.graph *)
ThreadConfigure(t) ==
  /\ threads[t].pc = "configure"
  /\ LET req == threads[t].req
         conf == configure_graph(graph, db_patients, db_hospitals,
                                 req.graph_mode, req.k, req.radius_km)
         inputs == build_single_patient_inputs(db_patients, db_hospitals,
                                               req.patient_code)
     IN  IF conf.raised
         THEN /\ graph' = graph
              /\ threads' = [threads EXCEPT ![t].pc = "done", ![t].status = 404]
         ELSE /\ graph' = conf.graph
              /\ IF inputs = None
                 THEN threads' = [threads EXCEPT ![t].pc = "done", ![t].status = 404,
                                                 ![t].configured =
                                                   IF req.graph_mode = None THEN None
                                                   ELSE Some(conf.graph)]
                 ELSE \E raw \in run_assignment_algorithms_for_patient(
                                   inputs[1].patient, inputs[1].hospitals) :
                        threads' = [threads EXCEPT ![t].pc = "paths",
                                                   ![t].configured =
                                                     IF req.graph_mode = None THEN None
                                                     ELSE Some(conf.graph),
                                                   ![t].inputs = inputs,
                                                   ![t].raw = raw]
  /\ UNCHANGED <<solver_vars, db_patients, db_hospitals, resp, requests, log,
                 text_vars, ors_vars>>

(* one round of the loop over assignment_algos_raw: compute_path_algorithms runs
   on the graph self.graph holds at that moment *)
ThreadPaths(t) ==
  /\ threads[t].pc = "paths"
  /\ LET th == threads[t]
         i == Len(th.entries) + 1
         entry == assignment_entry(graph, th.inputs[1].patient, th.inputs[1].hospitals,
                                   th.raw[i])
     IN  threads' = [threads EXCEPT
                       ![t].entries = Append(@, entry),
                       ![t].used = IF entry.paths = None THEN @ ELSE @ \cup {graph},
                       ![t].pc = IF i = Len(th.raw) THEN "network" ELSE "paths"]
  /\ UNCHANGED <<solver_vars, service_vars, text_vars, ors_vars>>

(* run_network_algorithms on the graph self.graph holds at that moment, then the
   answer *)
ThreadNetwork(t) ==
  /\ threads[t].pc = "network"
  /\ threads' = [threads EXCEPT ![t].network = run_network_algorithms(graph),
                                ![t].used = @ \cup {graph},
                                ![t].pc = "done",
                                ![t].status = 200]
  /\ UNCHANGED <<solver_vars, service_vars, text_vars, ors_vars>>

ConcNext ==
  \E t \in 1..MaxThreads : ThreadConfigure(t) \/ ThreadPaths(t) \/ ThreadNetwork(t)

ConcSpec == ConcInit /\ [][ConcNext]_vars

(* C14: a request that sent a graph_mode has every path computation and its
   network computation run on the graph that this request configured, whatever
   the other request does in between. *)
C14_ComputationsOnOwnGraph ==
  \A t \in DOMAIN threads :
    threads[t].configured # None =>
      \A g \in threads[t].used : g = threads[t].configured[1]

----------------------------------------------------------------------------
(* Further properties of the assignment strategies. *)

(* C15: a call of greedy_assign, hungarian or min_cost_flow leaves the hospital
   list it was given as it was, capacities included, and the patient list too:
   the strategies called in sequence on the same lists all start from the same
   capacities. *)
C15_StrategiesLeaveHospitalsUnchanged ==
  [][hospitals' = hospitals /\ patients' = patients]_vars

(* greedy_assign ran twice in sequence on a hospital of capacity 1: each run
   filled it and left a patient out, and the record still shows capacity 1 *)
C15_Witness ==
  /\ last.alg = "greedy"
  /\ prev.alg = "greedy"
  /\ Unassigned(last.out) # {}
  /\ \E j \in DOMAIN hospitals :
       /\ hospitals[j].capacity = Some(1)
       /\ AssignedTo(prev.out, hospitals[j].id) = 1
       /\ AssignedTo(last.out, hospitals[j].id) = 1

(* the strategies called on hospitals whose capacity is absent, negative, zero
   or one, for patients of one severity *)
CapInit ==
  /\ \E n \in 0..MaxPatients : \E f \in [1..n -> PatientLats] :
       patients = [i \in 1..n |->
                     [id |-> Pid(i), severity |-> <<"G","r","a","v","e">>, lat |-> f[i]]]
  /\ \E m \in 0..MaxHospitals :
       \E f \in [1..m -> [capacity : {None} \cup {Some(c) : c \in (-1)..1},
                          lat : HospitalLats]] :
         hospitals = [j \in 1..m |->
                        [id |-> Hid(j), capacity |-> f[j].capacity, lat |-> f[j].lat]]
  /\ last = NotRun
  /\ prev = NotRun
  /\ ServiceIdle /\ TextIdle /\ OrsIdle /\ ConcIdle

CapSpec == CapInit /\ [][Next]_vars

(* C16: when a hospital of the list has an absent, zero or negative capacity,
   greedy_assign and min_cost_flow leave no patient unassigned, however many
   patients the run has. *)
C16_UnlimitedCapacityTakesEveryPatient ==
  (/\ last.alg \in {"greedy", "mcf"}
   /\ \E j \in DOMAIN hospitals : ~PositiveCapacity(hospitals[j])) =>
    /\ Len(last.out) = Len(patients)
    /\ Unassigned(last.out) = {}

(* three patients all sent by min_cost_flow to a hospital of capacity -1, the
   other hospital having capacity 1 *)
C16_Witness ==
  /\ last.alg = "mcf"
  /\ Len(patients) = 3
  /\ Len(hospitals) = 2
  /\ \E j, k \in DOMAIN hospitals :
       /\ hospitals[j].capacity = Some(-1)
       /\ hospitals[k].capacity = Some(1)
       /\ AssignedTo(last.out, hospitals[j].id) = 3

(* three patients all sent by greedy_assign to a hospital of capacity 0 *)
C16_GreedyZero ==
  /\ last.alg = "greedy"
  /\ Len(patients) = 3
  /\ \E j \in DOMAIN hospitals :
       /\ hospitals[j].capacity = Some(0)
       /\ AssignedTo(last.out, hospitals[j].id) = 3

----------------------------------------------------------------------------
(* The two handlers on a service whose default graph is older than the store:
   RoutingService built it when the service was created, from the rows the
   store held then, and rows were added since. *)

SnapshotInit ==
  /\ SolverIdle /\ TextIdle /\ OrsIdle /\ ConcIdle
  /\ \E lat \in PatientLats :
       db_patients = <<[code |-> Pid(1), department |-> None, disease |-> None,
                        severity |-> <<"L","e","v","e">>, lat |-> lat]>>
  /\ \E m \in 0..MaxDbHospitals : \E f \in [1..m -> HospitalLats] :
       db_hospitals = [j \in 1..m |->
                         [code |-> Hid(j), department |-> Some("Lima"),
                          specialties |-> None, capacity |-> Some(1), lat |-> f[j]]]
  /\ \E np \in 0..Len(db_patients) : \E nh \in 0..Len(db_hospitals) :
       \E mode \in Topologies :
         graph = configure_graph(EmptyGraph, SubSeq(db_patients, 1, np),
                                 SubSeq(db_hospitals, 1, nh),
                                 Some(mode), None, None).graph
  /\ resp = NoResponse
  /\ requests = 0
  /\ log = <<>>

SnapshotSpec == SnapshotInit /\ [][SvcNext]_vars

NoPath == [dijkstra |-> None, bellman_ford |-> None]

(* C17: for every entry of the report that has a hospital, when the patient or
   that hospital is not a node of the configured graph the entry's paths are the
   'no path' result, the entry still carries the hospital and the geographic
   distance, and the request is answered; when both are nodes, both algorithms
   have an entry. *)
C17_NoPathWhenNodeNotInGraph ==
  Answered =>
    \A i \in DOMAIN resp.full[1].assignment_algorithms :
      LET entry == resp.full[1].assignment_algorithms[i]
      IN  entry.hospital # None =>
            /\ entry.distance_geo_km =
                 Some(Abs(Asked.lat - entry.hospital[1].lat))
            /\ entry.paths # None
            /\ IF InGraph(graph, Asked.code) /\ InGraph(graph, entry.hospital[1].id)
               THEN entry.paths[1].dijkstra # None /\ entry.paths[1].bellman_ford # None
               ELSE entry.paths[1] = NoPath /\ resp.status = 200

(* a request without graph_mode for a patient who is a node of the default graph,
   assigned to a hospital that is not *)
C17_Witness ==
  /\ Answered
  /\ resp.status = 200
  /\ InGraph(graph, Asked.code)
  /\ \E i \in DOMAIN resp.full[1].assignment_algorithms :
       LET entry == resp.full[1].assignment_algorithms[i]
       IN  /\ entry.hospital # None
           /\ ~InGraph(graph, entry.hospital[1].id)
           /\ entry.distance_geo_km # None
           /\ entry.paths = Some(NoPath)

----------------------------------------------------------------------------
(* services/ors_service.py and distancia_km_real of utils/geo_utils.py.
   A coordinate is a whole number of quarters of 0.000001 degree; a road
   distance is held in grid steps like the straight-line one. *)

MaxCalls == 2

ORS_MAX_RETRIES == 3

UnitsPerMicro == 4

(* the points routes are asked for: the first two differ only in the sign of a
   latitude that rounds to zero, the last two round to the same six decimals *)
RoutePoints ==
  {[lat |-> -1, lon |-> -3], [lat |-> 1, lon |-> -3],
   [lat |-> 3, lon |-> -3], [lat |-> 5, lon |-> -3]}

(* f"{x:.6f}": the sign of x, then |x| rounded to six decimals *)
Fmt6(x) ==
  [sign |-> IF x < 0 THEN "-" ELSE "", micro |-> PyRound(Abs(x), UnitsPerMicro)]

cache_path_unordered(start_lat, start_lon, end_lat, end_lon) ==
  {<<Fmt6(start_lat), Fmt6(start_lon)>>, <<Fmt6(end_lat), Fmt6(end_lon)>>}

(* _get_cache_path: the file name made of the four formatted coordinates *)
cache_path(start_lat, start_lon, end_lat, end_lon) ==
  <<Fmt6(start_lat), Fmt6(start_lon), Fmt6(end_lat), Fmt6(end_lon)>>

(* what one requests.post brings back: a route of so many metres, a 200 without
   features or without segments or with a body that does not parse, a 429,
   another status, a timeout, another exception *)
RouteMeters == {0, 1234}

HttpResponses ==
  {[kind |-> "route", meters |-> m] : m \in RouteMeters}
  \cup {[kind |-> k, meters |-> 0] :
          k \in {"no_features", "no_segments", "bad_body", "429", "status",
                 "timeout", "exception"}}

(* the record of a failed call *)
Failure(error_msg) == [success |-> FALSE, error |-> error_msg, distance_km |-> None]

(* result of a parsed route: round(distance / 1000.0, 2) *)
Success(meters) ==
  [success |-> TRUE, error |-> "",
   distance_km |-> Some((UnitsPerKm \div 100) * PyRound(meters, 10))]

Continue == [returns |-> FALSE, result |-> None]

Return(result) == [returns |-> TRUE, result |-> Some(result)]

handle_response_retry_status(r, attempt, max_retries) ==
  LET more == attempt < max_retries - 1
  IN  CASE r.kind = "route" -> Return(Success(r.meters))
        [] r.kind \in {"no_features", "no_segments"} -> Continue
        [] r.kind = "429" ->
             IF more THEN Continue ELSE Return(Failure("Rate limit exceeded"))
        [] r.kind = "status" ->
             IF more THEN Continue ELSE Return(Failure("API error"))
        [] r.kind = "timeout" ->
             IF more THEN Continue ELSE Return(Failure("Request timeout"))
        [] OTHER ->
             IF more THEN Continue ELSE Return(Failure("Unexpected error"))

(* one round of the retry loop of get_route on the response r *)
handle_response(r, attempt, max_retries) ==
  LET more == attempt < max_retries - 1
  IN  CASE r.kind = "route" -> Return(Success(r.meters))
        [] r.kind \in {"no_features", "no_segments"} -> Continue
        [] r.kind = "429" ->
             IF more THEN Continue ELSE Return(Failure("Rate limit exceeded"))
        [] r.kind = "status" -> Return(Failure("API error"))
        [] r.kind = "timeout" ->
             IF more THEN Continue ELSE Return(Failure("Request timeout"))
        [] OTHER ->
             IF more THEN Continue ELSE Return(Failure("Unexpected error"))

range_exhausted_after(attempt, max_retries) == attempt > max_retries

(* for attempt in range(self.max_retries): no round is left after this one *)
range_exhausted(attempt, max_retries) == attempt + 1 >= max_retries

(* _load_from_cache: the entry of the file, None when there is no file or the
   file cannot be read *)
load_from_cache(files, path, readable) ==
  IF readable /\ \E e \in files : e.path = path
  THEN Some((CHOOSE e \in files : e.path = path).entry)
  ELSE None

save_to_cache_never(files, path, entry, writable) == files

(* _save_to_cache: the file is written, or the error is swallowed *)
save_to_cache(files, path, entry, writable) ==
  IF writable
  THEN {e \in files : e.path # path} \cup {[path |-> path, entry |-> entry]}
  ELSE files

distancia_km_real_of_route(result, lat1, lat2) ==
  IF result.distance_km = None THEN 0 ELSE result.distance_km[1]

(* distancia_km_real on the result of get_route *)
distancia_km_real(result, lat1, lat2) ==
  IF result.success THEN result.distance_km[1] ELSE distancia_km(lat1, lat2)

RouteCallers == {"get_route", "distancia_km_real"}

(* the service as get_ors_service() builds it, before any call *)
OrsInit ==
  /\ SolverIdle /\ ServiceIdle /\ TextIdle /\ ConcIdle
  /\ cache = {}
  /\ routed = <<>>
  /\ \E m \in 0..ORS_MAX_RETRIES :
       route = [phase |-> "idle", caller |-> "get_route",
                start |-> [lat |-> 1, lon |-> -3], end |-> [lat |-> 1, lon |-> -3],
                max_retries |-> m, attempt |-> 0, http |-> 0, lookup |-> "none",
                before |-> 0, calls |-> 0, result |-> None, returned |-> None]

(* what the caller gets once get_route has returned result *)
Returned(caller, result, start, end) ==
  IF caller = "distancia_km_real"
  THEN Some(distancia_km_real(result, start.lat, end.lat))
  ELSE Some(result)

(* get_route up to the first requests.post: the cache lookup, and the loop
   that has no round when max_retries is 0 *)
GetRoute(caller, start, end, readable) ==
  /\ route # <<>>
  /\ route.phase \in {"idle", "done"}
  /\ route.calls < MaxCalls
  /\ LET path == cache_path(start.lat, start.lon, end.lat, end.lon)
         cached == load_from_cache(cache, path, readable)
         present == \E e \in cache : e.path = path
         call == [route EXCEPT !.caller = caller, !.start = start, !.end = end,
                               !.attempt = 0, !.http = 0,
                               !.before = Len(routed), !.calls = @ + 1,
                               !.lookup = IF cached # None THEN "hit"
                                          ELSE IF present THEN "unreadable"
                                          ELSE "miss"]
     IN  route' =
           IF cached # None
           THEN [call EXCEPT !.phase = "done", !.result = cached,
                             !.returned = Returned(caller, cached[1], start, end)]
           ELSE IF route.max_retries <= 0
           THEN [call EXCEPT !.phase = "done",
                             !.result = Some(Failure("Max retries exceeded")),
                             !.returned = Returned(caller,
                                            Failure("Max retries exceeded"),
                                            start, end)]
           ELSE [call EXCEPT !.phase = "attempting", !.result = None,
                             !.returned = None]
  /\ UNCHANGED <<cache, routed>>
  /\ UNCHANGED <<solver_vars, service_vars, text_vars, conc_vars>>

(* one round of the loop: requests.post brings r back *)
Respond(r, writable) ==
  /\ route # <<>>
  /\ route.phase = "attempting"
  /\ LET out == handle_response(r, route.attempt, route.max_retries)
         path == cache_path(route.start.lat, route.start.lon,
                            route.end.lat, route.end.lon)
         result == IF out.returns THEN out.result[1]
                   ELSE Failure("Max retries exceeded")
         ends == out.returns \/ range_exhausted(route.attempt, route.max_retries)
         saves == out.returns /\ result.success
     IN  /\ route' =
              IF ends
              THEN [route EXCEPT !.phase = "done", !.http = @ + 1,
                                 !.result = Some(result),
                                 !.returned = Returned(route.caller, result,
                                                       route.start, route.end)]
              ELSE [route EXCEPT !.attempt = @ + 1, !.http = @ + 1]
         /\ cache' = IF saves THEN save_to_cache(cache, path, result, writable)
                     ELSE cache
         /\ routed' = IF saves
                      THEN Append(routed, [start |-> route.start, end |-> route.end,
                                           entry |-> result, saved |-> writable])
                      ELSE routed
  /\ UNCHANGED <<solver_vars, service_vars, text_vars, conc_vars>>

OrsNext ==
  \/ \E caller \in RouteCallers, start \in RoutePoints, end \in RoutePoints,
        readable \in BOOLEAN :
       GetRoute(caller, start, end, readable)
  \/ \E r \in HttpResponses, writable \in BOOLEAN : Respond(r, writable)

OrsSpec == OrsInit /\ [][OrsNext]_vars

(* a call of get_route, direct or from distancia_km_real, has returned *)
RouteDone == route # <<>> /\ route.phase = "done"

(* C18: distancia_km_real always returns a distance whatever the routing
   collaborator answers: the road distance of the route when get_route
   succeeds, the straight-line distance of the two points for every failure
   record of get_route. *)
C18_RoadDistanceOrHaversine ==
  (RouteDone /\ route.caller = "distancia_km_real") =>
    /\ route.returned # None
    /\ route.result[1].success =>
         route.returned = route.result[1].distance_km
    /\ ~route.result[1].success =>
         route.returned = Some(distancia_km(route.start.lat, route.end.lat))

(* distancia_km_real fell back after the collaborator failed on every round *)
C18_Witness ==
  /\ RouteDone
  /\ route.caller = "distancia_km_real"
  /\ route.http = route.max_retries
  /\ route.http > 1
  /\ ~route.result[1].success
  /\ route.start.lat # route.end.lat
  /\ route.returned = Some(distancia_km(route.start.lat, route.end.lat))

(* distancia_km_real returned the road distance of a route *)
C18_RoadWitness ==
  /\ RouteDone
  /\ route.caller = "distancia_km_real"
  /\ route.result[1].success
  /\ route.returned = Some((UnitsPerKm \div 100) * 123)

(* the two shapes of record get_route returns *)
IsRouteRecord(rec) ==
  IF rec.success
  THEN rec.distance_km # None /\ rec.error = ""
  ELSE rec.distance_km = None /\ rec.error # ""

(* C19: get_route has a bounded retry budget: whatever the collaborator
   answers on each round, it makes at most max_retries HTTP attempts, and it
   returns a success record or a record with success false. *)
C19_BoundedRetries ==
  route # <<>> =>
    /\ route.http <= route.max_retries
    /\ route.phase = "attempting" => route.http < route.max_retries
    /\ (route.phase = "done" /\ route.caller = "get_route") =>
         /\ route.returned = route.result
         /\ route.result # None
         /\ IsRouteRecord(route.result[1])

(* every round was used and none brought a route *)
C19_Witness ==
  /\ RouteDone
  /\ route.caller = "get_route"
  /\ route.lookup = "miss"
  /\ route.max_retries = ORS_MAX_RETRIES
  /\ route.http = route.max_retries
  /\ route.result = Some(Failure("Max retries exceeded"))

(* x rounded to six decimals, as a number: minus zero is zero *)
Round6(x) == (IF x < 0 THEN -1 ELSE 1) * PyRound(Abs(x), UnitsPerMicro)

(* the ordered pairs a and b round to the same six-decimal values *)
SameRounded(a, b) ==
  /\ Round6(a.start.lat) = Round6(b.start.lat)
  /\ Round6(a.start.lon) = Round6(b.start.lon)
  /\ Round6(a.end.lat) = Round6(b.end.lat)
  /\ Round6(a.end.lon) = Round6(b.end.lon)

(* the ordered pairs a and b are written with the same six-decimal texts *)
SameText(a, b) ==
  /\ Fmt6(a.start.lat) = Fmt6(b.start.lat)
  /\ Fmt6(a.start.lon) = Fmt6(b.start.lon)
  /\ Fmt6(a.end.lat) = Fmt6(b.end.lat)
  /\ Fmt6(a.end.lon) = Fmt6(b.end.lon)

(* the routes the collaborator had answered when the present call began *)
Earlier == IF route = <<>> THEN {} ELSE 1..route.before

(* the present call was answered from the cache, by entry, with no HTTP attempt *)
ServedFromCache(entry) ==
  /\ route.lookup = "hit"
  /\ route.phase = "done"
  /\ route.http = 0
  /\ route.result = Some(entry)

(* C20 as stated: one entry per ordered pair of coordinates rounded to six
   decimals. After a successful get_route for a pair, every later get_route
   whose pair rounds to the same values returns the stored entry without any
   HTTP attempt, and a pair that rounds differently never receives it. *)
C20_OneEntryPerRoundedPair ==
  /\ \A i \in Earlier :
       (/\ SameRounded(routed[i], route)
        /\ \A j \in Earlier : j > i => ~SameRounded(routed[j], route))
       => ServedFromCache(routed[i].entry)
  /\ (route # <<>> /\ route.lookup = "hit") =>
       \E i \in Earlier :
         SameRounded(routed[i], route) /\ route.result = Some(routed[i].entry)

(* C20 amended: one entry per ordered pair of coordinates written with six
   decimals, sign included. After a successful get_route whose entry was
   written, every later get_route whose pair is written the same and whose
   entry can be read returns the entry last written without any HTTP attempt,
   and a pair written differently never receives it. *)
C20_OneEntryPerFormattedPair ==
  /\ \A i \in Earlier :
       (/\ SameText(routed[i], route)
        /\ routed[i].saved
        /\ \A j \in Earlier :
             j > i => ~(SameText(routed[j], route) /\ routed[j].saved)
        /\ route.lookup # "unreadable")
       => ServedFromCache(routed[i].entry)
  /\ (route # <<>> /\ route.lookup = "hit") =>
       \E i \in Earlier :
         /\ SameText(routed[i], route)
         /\ routed[i].saved
         /\ route.result = Some(routed[i].entry)

(* a call was served the entry of an earlier call for other coordinates that
   are written the same *)
C20_Witness ==
  /\ route # <<>>
  /\ Len(routed) = 1
  /\ ServedFromCache(routed[1].entry)
  /\ routed[1].start # route.start
  /\ routed[1].entry.distance_km # Some(0)

(* the reversed pair of a stored route went to the collaborator *)
C20_ReversedWitness ==
  /\ route # <<>>
  /\ Len(routed) = 1
  /\ route.before = 1
  /\ routed[1].saved
  /\ routed[1].start = route.end
  /\ routed[1].end = route.start
  /\ route.lookup = "miss"
  /\ route.http > 0

----------------------------------------------------------------------------
(* greedy_assign, one patient at a time. *)

(* the processing order *)
Sorted == patients_sorted(patients, Len(patients))

(* the results and the private capacities once the first k patients of the
   processing order have been handled *)
GreedyAfter(k) ==
  greedy_loop(SubSeq(Sorted, 1, k), hospitals,
              greedy_capacities(hospitals, Len(hospitals)), <<>>)

GreedyTrace == [k \in 0..Len(patients) |-> GreedyAfter(k)]

(* the hospitals with capacity left in the counters caps *)
Open(caps) == {j \in DOMAIN hospitals : caps[hospitals[j].id] > 0}

(* C21: for each patient in processing order greedy_assign considers exactly
   the hospitals with remaining capacity > 0, assigns one at minimum haversine
   distance and takes exactly 1 from that hospital's counter and from no
   other; when no hospital has capacity left the patient gets no hospital and
   no distance and no counter changes. No counter ever becomes negative. *)
C21_GreedyStep ==
  last.alg = "greedy" =>
    LET trace == GreedyTrace
        sorted == Sorted
    IN
    /\ last.out = trace[Len(patients)].results
    /\ \A k \in 1..Len(patients) :
         LET before == trace[k - 1].capacities
             after == trace[k].capacities
             p == sorted[k]
             rec == last.out[k]
         IN  /\ rec.patient = p.id
             /\ \A id \in DOMAIN after : after[id] >= 0
             /\ IF Open(before) = {}
                THEN /\ rec.hospital = None
                     /\ rec.distance = None
                     /\ after = before
                ELSE \E j \in Open(before) :
                       /\ rec.hospital = hospitals[j].id
                       /\ rec.distance = Some(haversine(p.lat, hospitals[j].lat))
                       /\ \A i \in Open(before) :
                            haversine(p.lat, hospitals[j].lat)
                              <= haversine(p.lat, hospitals[i].lat)
                       /\ after = [before EXCEPT ![hospitals[j].id] = @ - 1]

(* a run in which the nearer hospital filled up, a later patient was sent to the
   farther one, and the last patient found every counter at 0 *)
C21_Witness ==
  /\ last.alg = "greedy"
  /\ Len(patients) = 3
  /\ Len(hospitals) = 2
  /\ Open(GreedyAfter(1).capacities) = {2}
  /\ Open(GreedyAfter(2).capacities) = {}
  /\ last.out[3].hospital = None
  /\ haversine(patients[1].lat, hospitals[1].lat)
       < haversine(patients[1].lat, hospitals[2].lat)

----------------------------------------------------------------------------
(* _severity_rank on the severity texts of patient records. *)

Grave == <<"g","r","a","v","e">>
Moderado == <<"m","o","d","e","r","a","d","o">>

(* severity texts: the three of the data set, in other case and with blanks
   around, the empty or absent one, and texts that name none of the three *)
SeverityTexts ==
  { <<"G","r","a","v","e">>,
    <<" ","m","o","d","e","r","a","d","o">>,
    <<"M","O","D","E","R","A","D","O">>,
    <<"L","e","v","e">>,
    <<>>,
    <<"m","i","l","d">>,
    <<"m","e","n","o","r">>,
    <<"d","e","s","c","o","n","o","c","i","d","o">> }

(* greedy_assign on patients of any of these severities; one hospital takes
   every patient *)
RankInit ==
  /\ \E n \in 0..MaxPatients : \E f \in [1..n -> SeverityTexts] :
       patients = [i \in 1..n |-> [id |-> Pid(i), severity |-> f[i], lat |-> 1]]
  /\ hospitals = <<[id |-> Hid(1), capacity |-> None, lat |-> 0]>>
  /\ last = NotRun
  /\ prev = NotRun
  /\ ServiceIdle /\ TextIdle /\ OrsIdle /\ ConcIdle

RankSpec == RankInit /\ [][GreedyAssign]_vars

(* the rank by severity class: grave 0, moderate 1, anything else 2 *)
ClassRank(sev) ==
  IF StripLower(sev) = Grave THEN 0
  ELSE IF StripLower(sev) = Moderado THEN 1
  ELSE 2

(* C22: the Greedy severity rank is 0 for grave, 1 for moderate and 2 for every
   other severity (mild, unknown, empty or absent), so no mild or unknown
   patient is processed before a moderate one, nor a moderate one before a
   grave one. *)
C22_RankBySeverityClass ==
  last.alg = "greedy" =>
    /\ \A i \in DOMAIN patients :
         severity_rank(patients[i].severity) = ClassRank(patients[i].severity)
    /\ \A k, l \in DOMAIN last.out :
         k < l => ClassRank(patients[InputIndex(last.out[k])].severity)
                    <= ClassRank(patients[InputIndex(last.out[l])].severity)

(* the same on the texts that are one of grave, moderado, leve or empty *)
C22_KnownTexts ==
  (\A i \in DOMAIN patients :
     patients[i].severity = <<>>
     \/ StripLower(patients[i].severity) \in {Grave, Moderado, <<"l","e","v","e">>})
  => C22_RankBySeverityClass

----------------------------------------------------------------------------
(* The capacity network run_network_algorithms derives from the configured graph. *)

(* the entries of the report's network part that carry the name *)
NetworkEntries(name) ==
  {i \in DOMAIN resp.full[1].network_algorithms :
     resp.full[1].network_algorithms[i].name = name}

(* C23: in the capacity network of Edmonds-Karp every edge {u,v} of the
   configured graph has capacity 1 from u to v and from v to u, whichever of the
   three topologies was configured; source and sink are the first two nodes of
   the graph; with fewer than 2 nodes the report has no max-flow entry. *)
C23_UnitCapacityBothWays ==
  (Answered /\ resp.endpoint = "compare-patient") =>
    /\ \A e \in graph.edges :
         /\ <<e[1], e[2]>> \in unit_capacity(graph)
         /\ <<e[2], e[1]>> \in unit_capacity(graph)
    /\ Len(graph.nodes) < 2 => NetworkEntries("Edmonds-Karp") = {}
    /\ Len(graph.nodes) >= 2 =>
         \E i \in NetworkEntries("Edmonds-Karp") :
           /\ NetworkEntries("Edmonds-Karp") = {i}
           /\ resp.full[1].network_algorithms[i].source = Some(graph.nodes[1])
           /\ resp.full[1].network_algorithms[i].sink = Some(graph.nodes[2])

(* the same without the bipartite topology: every edge of the graph has its
   reverse *)
C23_UndirectedGraphs ==
  (\A e \in graph.edges : \E r \in graph.edges : r[1] = e[2] /\ r[2] = e[1])
    => C23_UnitCapacityBothWays

----------------------------------------------------------------------------
(* Requests served one after another by the process-wide service. *)

MaxSeqRequests == 3

(* request bodies: with or without patient code, the code stored or not; the
   graph mode absent, empty, one of the three topologies or another name *)
SeqRequests ==
  [patient_code : {None, AbsentCode, Pid(1)},
   graph_mode : {None, Some(""), Some("hexagonal")}, k : {None}, radius_km : {None}]
  \cup [patient_code : {None, AbsentCode, Pid(1)},
        graph_mode : {Some("knn"), Some("bipartite_knn")}, k : {Some(1)},
        radius_km : {None}]
  \cup [patient_code : {None, AbsentCode, Pid(1)},
        graph_mode : {Some("radius")}, k : {None}, radius_km : {Some(1)}]

NoRequest == [patient_code |-> None, graph_mode |-> None, k |-> None, radius_km |-> None]

(* one patient and two hospitals; the far one offers the specialty the patient
   needs; the service was built with the default graph of RoutingService *)
SeqInit ==
  /\ SolverIdle /\ TextIdle /\ OrsIdle /\ ConcIdle
  /\ db_patients = <<[code |-> Pid(1), department |-> Some("Lima"), disease |-> None,
                      severity |-> <<"L","e","v","e">>, lat |-> 1]>>
  /\ db_hospitals = [j \in 1..2 |->
                       [code |-> Hid(j), department |-> Some("Lima"),
                        specialties |-> IF j = 1 THEN Some(Cardiologia)
                                        ELSE Some(MedicinaInterna),
                        capacity |-> Some(1),
                        lat |-> IF j = 1 THEN 0 ELSE 4]]
  /\ \E mode \in Topologies :
       graph = configure_graph(EmptyGraph, db_patients, db_hospitals,
                               Some(mode), None, None).graph
  /\ resp = NoResponse
  /\ requests = 0
  /\ log = <<[endpoint |-> "", request |-> NoRequest, built |-> Some(graph)]>>

(* what the request's configure_graph built: None when the handler did not reach
   it, when it left the graph alone and when it raised *)
Built(req) ==
  LET conf == configure_graph(graph, db_patients, db_hospitals,
                              req.graph_mode, req.k, req.radius_km)
  IN  IF req.patient_code = None \/ conf.raised
         \/ req.graph_mode = None \/ req.graph_mode = Some("")
      THEN None
      ELSE Some(conf.graph)

SeqComparePatient ==
  /\ requests < MaxSeqRequests
  /\ requests' = requests + 1
  /\ \E req \in SeqRequests :
       /\ post_api_assign_compare_patient(req)
       /\ log' = Append(log, [endpoint |-> "compare-patient", request |-> req,
                              built |-> Built(req)])
  /\ UNCHANGED <<solver_vars, db_patients, db_hospitals, text_vars, ors_vars,
                 conc_vars>>

SeqPatientBest ==
  /\ requests < MaxSeqRequests
  /\ requests' = requests + 1
  /\ \E req \in SeqRequests :
       /\ post_api_assign_patient_best(req)
       /\ log' = Append(log, [endpoint |-> "patient-best", request |-> req,
                              built |-> Built(req)])
  /\ UNCHANGED <<solver_vars, db_patients, db_hospitals, text_vars, ors_vars,
                 conc_vars>>

SeqNext == SeqComparePatient \/ SeqPatientBest

SeqSpec == SeqInit /\ [][SeqNext]_vars

(* the request the latest step served *)
Served == log[Len(log)]

(* the graph before the latest request was served: the one built by the most
   recent earlier entry of the log that built one *)
RECURSIVE LastBuilt(_)
LastBuilt(n) == IF log[n].built # None THEN log[n].built[1] ELSE LastBuilt(n - 1)

(* C24: configure_graph replaces the configured graph only for graph_mode knn,
   radius or bipartite_knn; for an absent or empty graph_mode it returns with the
   graph unchanged; for any other name it raises the invalid-configuration error
   with the graph unchanged. *)
C24_ConfigureGraphFrame ==
  (requests > 0 /\ Served.request.patient_code # None) =>
    LET req == Served.request
        before == LastBuilt(Len(log) - 1)
        nodes == load_nodes_from_db(db_patients, db_hospitals)
    IN  /\ req.graph_mode \in {None, Some("")} =>
             graph = before /\ resp.error # "graph_mode"
        /\ req.graph_mode = Some("knn") =>
             graph = build_knn_graph(nodes, req.k[1]) /\ resp.error # "graph_mode"
        /\ req.graph_mode = Some("radius") =>
             graph = build_radius_graph(nodes, req.radius_km[1])
             /\ resp.error # "graph_mode"
        /\ req.graph_mode = Some("bipartite_knn") =>
             graph = build_bipartite_knn_graph(nodes, req.k[1])
             /\ resp.error # "graph_mode"
        /\ req.graph_mode = Some("hexagonal") =>
             graph = before /\ resp.error = "graph_mode"

(* an unknown graph_mode was refused after an earlier request had replaced the
   default graph, and the replaced graph is still configured *)
C24_Witness ==
  /\ requests = 2
  /\ Served.request.graph_mode = Some("hexagonal")
  /\ Served.request.patient_code = Pid(1)
  /\ resp.error = "graph_mode"
  /\ log[2].built # None
  /\ graph = log[2].built[1]
  /\ graph # log[1].built[1]

----------------------------------------------------------------------------
(* min_cost_flow: all patients or none. *)

(* the places the hospitals of the list offer to a run on n_patients patients *)
TotalPlaces ==
  SumSeq([j \in DOMAIN hospitals |-> mcf_capacity(hospitals[j], Len(patients))])

(* C25: min_cost_flow is all-or-nothing: either every patient of the result
   has a hospital (network_simplex returned a flow of patientCount units) or
   every patient has none (it raised); no result has some patients assigned and
   others not, even when the capacity would do for part of the patients. *)
C25_AllOrNothing ==
  last.alg = "mcf" =>
    /\ Len(last.out) = Len(patients)
    /\ last.solved => \A k \in DOMAIN last.out : last.out[k].hospital # None
    /\ ~last.solved => \A k \in DOMAIN last.out : last.out[k].hospital = None
    /\ patients # <<>> =>
         (last.solved <=> (hospitals # <<>> /\ TotalPlaces >= Len(patients)))

(* three patients, places for one or two of them, and nobody assigned *)
C25_Witness ==
  /\ last.alg = "mcf"
  /\ Len(patients) = 3
  /\ TotalPlaces \in {1, 2}
  /\ ~last.solved
  /\ \A k \in DOMAIN last.out : last.out[k].hospital = None

----------------------------------------------------------------------------
(* The strategy assign_best_hospital_for_patient ends up using. *)

(* C26: for a stored patient whose candidate hospital list is not empty the
   single-patient Min-Cost Max-Flow run gives a hospital, so
   assign_best_hospital_for_patient reports algorithm_used = Min-Cost Max-Flow
   and never falls back to Hungarian or Greedy; the error "no algorithm could
   assign" is reached only when the record store holds no hospital. *)
C26_MinCostFlowAlwaysUsed ==
  (Answered /\ resp.endpoint = "patient-best") =>
    /\ resp.candidates[1] # <<>> =>
         /\ EntryNamed(resp.full[1].assignment_algorithms,
                       "Min-Cost Max-Flow").hospital # None
         /\ resp.status = 200
         /\ resp.body[1].algorithm_used = "Min-Cost Max-Flow"
    /\ resp.status # 200 => resp.error = "no hospital" /\ db_hospitals = <<>>
    /\ db_hospitals # <<>> => resp.candidates[1] # <<>>

(* the answer is the hospital of Min-Cost Max-Flow where Greedy chose another
   one among two candidates *)
C26_Witness ==
  /\ Answered
  /\ resp.endpoint = "patient-best"
  /\ resp.status = 200
  /\ Len(resp.candidates[1]) = 2
  /\ resp.body[1].algorithm_used = "Min-Cost Max-Flow"
  /\ resp.body[1].hospital
       # EntryNamed(resp.full[1].assignment_algorithms, "Greedy").hospital

(* the path results of the report's entries are those of graph g *)
PathsOn(g) ==
  \A i \in DOMAIN resp.full[1].assignment_algorithms :
    LET a == resp.full[1].assignment_algorithms[i]
    IN  a.hospital # None =>
          a.paths = Some(compute_path_algorithms(g, resp.full[1].patient.code,
                                                 a.hospital[1].id))

(* C27: the configured graph belongs to the process-wide service and outlives
   the request: a request that sends no graph_mode has its path and network
   algorithms run on the graph built by the most recent earlier request whose
   configure_graph succeeded, or on the initial default graph when there was
   none. *)
C27_GraphPersistsAcrossRequests ==
  (requests > 0 /\ Answered /\ Served.request.graph_mode \in {None, Some("")}) =>
    LET g == LastBuilt(Len(log) - 1)
    IN  /\ graph = g
        /\ resp.full[1].network_algorithms = run_network_algorithms(g)
        /\ PathsOn(g)

(* a request without graph_mode, served after one that built a graph and one
   whose graph_mode was refused, got results that the default graph does not
   give *)
C27_Witness ==
  /\ requests = 3
  /\ Answered
  /\ Served.request.graph_mode = None
  /\ log[2].built # None
  /\ log[3].request.graph_mode = Some("hexagonal")
  /\ log[3].request.patient_code = Pid(1)
  /\ resp.full[1].network_algorithms = run_network_algorithms(log[2].built[1])
  /\ resp.full[1].network_algorithms # run_network_algorithms(log[1].built[1])
  /\ ~PathsOn(log[1].built[1])

(* the graph the builder makes for the request's topology and parameters *)
GraphFor(req) ==
  LET nodes == load_nodes_from_db(db_patients, db_hospitals)
  IN  IF req.graph_mode = Some("knn") THEN build_knn_graph(nodes, req.k[1])
      ELSE IF req.graph_mode = Some("radius")
      THEN build_radius_graph(nodes, req.radius_km[1])
      ELSE build_bipartite_knn_graph(nodes, req.k[1])

(* C28: compare-patient and patient-best reconfigure the graph before they look
   the patient up and do not roll back: a request with a valid graph_mode and a
   patient code that is not in the store ends with the not-found error and
   leaves the shared graph replaced by the newly built one; a request without
   patient_code is rejected with 400 before any reconfiguration and leaves the
   graph unchanged. *)
C28_ReconfiguredBeforeLookup ==
  requests > 0 =>
    LET req == Served.request
    IN  /\ (req.patient_code = AbsentCode /\ req.graph_mode # None
            /\ req.graph_mode[1] \in Topologies) =>
             /\ resp.status = 404
             /\ resp.error = "patient"
             /\ graph = GraphFor(req)
        /\ req.patient_code = None =>
             /\ resp.status = 400
             /\ graph = LastBuilt(Len(log) - 1)

(* a request for a patient that is not stored was answered not-found and left
   another graph configured than the one it found *)
C28_Witness ==
  /\ requests > 0
  /\ Served.request.patient_code = AbsentCode
  /\ Served.request.graph_mode = Some("radius")
  /\ resp.status = 404
  /\ resp.error = "patient"
  /\ graph = GraphFor(Served.request)
  /\ graph # LastBuilt(Len(log) - 1)

(* a request without patient_code was rejected and the graph an earlier request
   had built is still configured *)
C28_RejectedWitness ==
  /\ requests = 2
  /\ Served.request.patient_code = None
  /\ Served.request.graph_mode = Some("knn")
  /\ resp.status = 400
  /\ log[2].built # None
  /\ graph = log[2].built[1]
  /\ graph # GraphFor(Served.request)

----------------------------------------------------------------------------
(* What get_route writes to the route cache. *)

(* the cache file name of the call in progress, from its coordinates *)
KeyOf(call) ==
  <<Fmt6(call.start.lat), Fmt6(call.start.lon), Fmt6(call.end.lat), Fmt6(call.end.lon)>>

(* the step ends a call of get_route *)
Returns == route # <<>> /\ route' # route /\ route'.phase = "done"

(* the step ends a call with a success record the collaborator gave *)
ReturnsRoute == Returns /\ route.phase = "attempting" /\ route'.result[1].success

(* the cache after the step is the cache before it with the call's result
   stored under the call's key *)
Stored ==
  cache' = {e \in cache : e.path # KeyOf(route')}
             \cup {[path |-> KeyOf(route'), entry |-> route'.result[1]]}

(* C29 as stated: get_route stores an entry for the requested key exactly when
   it returns a success record obtained from the collaborator; a call that
   returns success false or is answered from the cache leaves every entry
   unchanged, so the cache never holds a failure. *)
C29_WrittenExactlyOnSuccess ==
  [][/\ ReturnsRoute => Stored
     /\ ~ReturnsRoute => cache' = cache
     /\ \A e \in cache' : e.entry.success]_vars

(* C29 amended: get_route stores an entry for the requested key only when it
   returns a success record obtained from the collaborator, and then it does
   unless the write to the cache fails (the error is swallowed and the record
   is returned all the same); a call that returns success false or is answered
   from the cache leaves every entry unchanged, so the cache never holds a
   failure. *)
C29_WrittenOnlyOnSuccess ==
  [][/\ (ReturnsRoute /\ routed'[Len(routed')].saved) => Stored
     /\ ~ReturnsRoute => cache' = cache
     /\ \A e \in cache' : e.entry.success]_vars

(* a second call failed on every round after a first one had stored its route,
   and the cache holds that route only *)
C29_Witness ==
  /\ RouteDone
  /\ route.calls = 2
  /\ route.lookup = "miss"
  /\ route.http = route.max_retries
  /\ ~route.result[1].success
  /\ Len(routed) = 1
  /\ routed[1].saved
  /\ cache = {[path |-> KeyOf(routed[1]), entry |-> routed[1].entry]}

(* ---- Which failures of one attempt are followed by another attempt ---- *)

(* the responses after which get_route tries again while rounds remain *)
Retried == {"429", "timeout", "exception", "bad_body", "no_features", "no_segments"}

(* C30: within one get_route call, a status other than 200 and 429 ends the
   call at once with a failure record, whatever number of attempts remains;
   a 429, a timeout, another exception or a 200 without features or segments
   is followed by another attempt while fewer than max_retries attempts were
   made, and by a failure record on the last attempt *)
C30_FailureKindDecidesRetry ==
  [][\A r \in HttpResponses, writable \in BOOLEAN :
       Respond(r, writable) =>
         LET made == route.attempt + 1
             fails == /\ route'.phase = "done"
                      /\ route'.result # None
                      /\ ~route'.result[1].success
                      /\ route'.http = made
             again == /\ route'.phase = "attempting"
                      /\ route'.attempt = made
                      /\ route'.result = None
         IN  /\ r.kind = "status" => fails
             /\ r.kind \in Retried =>
                  IF made < route.max_retries THEN again ELSE fails]_vars

(* a first attempt answered by another status ended a call that had three
   attempts to make *)
C30_Witness ==
  /\ RouteDone
  /\ route.lookup # "hit"
  /\ route.max_retries = ORS_MAX_RETRIES
  /\ route.http = 1
  /\ route.result[1].error = "API error"

(* a call that made every attempt and ended on a 429 *)
C30_RetriedWitness ==
  /\ RouteDone
  /\ route.lookup # "hit"
  /\ route.max_retries = ORS_MAX_RETRIES
  /\ route.http = ORS_MAX_RETRIES
  /\ route.result[1].error = "Rate limit exceeded"

====
